---- MODULE Spec2Model ----
(***************************************************************************)
(* Model of the sentiment engine of market-analytics and of the pipeline   *)
(* around it:                                                              *)
(*   src/src/nlp/sentiment.py  (FinBERTAnalyzer: load_model, analyze,      *)
(*   _split_into_chunks),                                                  *)
(*   src/src/nlp/run_analysis.py  (run_sentiment_analysis),                *)
(*   src/src/database/connection.py  (get_session),                        *)
(*   src/src/database/repository.py  (store_speech, store_speeches_bulk,   *)
(*   get_unanalyzed_speeches, store_sentiment, store_market_snapshot),     *)
(*   src/src/ingestion/market_data.py  (_fetch_single_symbol,              *)
(*   _get_closest_price, _calc_pct_change),                                *)
(*   src/src/ingestion/run_backfill.py  (run_market_backfill),             *)
(*   src/src/ingestion/ecb_backfill.py  (get_records_from_chunks).         *)
(*                                                                         *)
(* Spec is the analyzer with any classifier, SpecEngine the analyzer used  *)
(* through load_model and analyze with a deterministic classifier and a    *)
(* load that can fail, SpecDb the database used by one process, SpecRuns   *)
(* two processes running run_sentiment_analysis on one database,           *)
(* SpecMarket the functions of market_data.py, SpecBackfill                *)
(* run_market_backfill, SpecScan get_records_from_chunks.                  *)
(*                                                                         *)
(* A text is a sequence of one-character strings.  A token is itself a     *)
(* sequence of characters (a WordPiece: "a", "##b", ".").  Floating-point  *)
(* numbers are modelled by a small binary floating-point format (see       *)
(* RoundF): non-negative integers, in units of the smallest increment,     *)
(* that have at most PRECISION significant bits.                           *)
(***************************************************************************)
EXTENDS Integers, Sequences, FiniteSets, TLC

(***************************************************************************)
(* Bounds of the model.                                                    *)
(***************************************************************************)
\* longest text handed to _split_into_chunks
MaxLen == 5
\* sentiment.py:25 sets 512; scaled down so that texts of MaxLen characters
\* exceed the budget
MAX_CHUNK_LENGTH == 4

Letters == {"a", "b"}
Whitespace == {" ", "\n"}
Punctuation == {".", "#"}
\* the characters input texts are made of
Alphabet == Letters \cup {".", " ", "\n"}

Texts == UNION {[1..n -> Alphabet] : n \in 0..MaxLen}

(***************************************************************************)
(* Sequence helpers.                                                       *)
(***************************************************************************)
Min(a, b) == IF a <= b THEN a ELSE b

Max(a, b) == IF a >= b THEN a ELSE b

\* s[lo..hi], empty when hi < lo (Python slice s[lo-1:hi])
Slice(s, lo, hi) == IF hi < lo THEN <<>> ELSE SubSeq(s, lo, Min(hi, Len(s)))

RECURSIVE Flatten(_)
\* concatenation of a sequence of sequences
Flatten(ss) == IF ss = <<>> THEN <<>> ELSE Head(ss) \o Flatten(Tail(ss))

(***************************************************************************)
(* str.replace("\n", " "), str.split(". "), ". ".join(...)                 *)
(***************************************************************************)
ReplaceNewlines(s) == [k \in 1..Len(s) |-> IF s[k] = "\n" THEN " " ELSE s[k]]

\* positions where the separator ". " starts
SepAt(s) == {k \in 1..(Len(s) - 1) : s[k] = "." /\ s[k + 1] = " "}

SetMin(S) == CHOOSE x \in S : \A y \in S : x <= y

RECURSIVE SplitSentences(_)
\* Python s.split(". "): left-to-right, non-overlapping separators; always
\* at least one element
SplitSentences(s) ==
    IF SepAt(s) = {} THEN <<s>>
    ELSE LET k == SetMin(SepAt(s))
         IN  <<Slice(s, 1, k - 1)>> \o SplitSentences(Slice(s, k + 2, Len(s)))

RECURSIVE Join(_)
\* ". ".join(parts)
Join(parts) ==
    IF parts = <<>> THEN <<>>
    ELSE IF Len(parts) = 1 THEN parts[1]
    ELSE parts[1] \o <<".", " ">> \o Join(Tail(parts))

(***************************************************************************)
(* The tokenizer (BERT WordPiece, as loaded by AutoTokenizer for           *)
(* ProsusAI/finbert).  Whitespace separates words, every punctuation       *)
(* character is a token of its own, a word is cut into pieces of the       *)
(* vocabulary; the vocabulary of the model holds the single letters, so    *)
(* the first letter of a word is the piece "x" and each later one "##x".   *)
(***************************************************************************)
Piece(c, continuation) == IF continuation THEN <<"#", "#", c>> ELSE <<c>>

RECURSIVE EncodeFrom(_, _, _)
EncodeFrom(s, k, inWord) ==
    IF k > Len(s) THEN <<>>
    ELSE IF s[k] \in Whitespace THEN EncodeFrom(s, k + 1, FALSE)
    ELSE IF s[k] \in Punctuation THEN <<<<s[k]>>>> \o EncodeFrom(s, k + 1, FALSE)
    ELSE <<Piece(s[k], inWord)>> \o EncodeFrom(s, k + 1, TRUE)

\* tokenizer.encode(text, add_special_tokens=False)
Encode(s) == EncodeFrom(s, 1, FALSE)

IsContinuation(tok) == Len(tok) = 3 /\ tok[1] = "#" /\ tok[2] = "#"

RECURSIVE JoinTokens(_)
\* " ".join(tokens).replace(" ##", ""): a continuation piece is glued to
\* the piece before it; the first token is kept as it is
JoinTokens(toks) ==
    IF toks = <<>> THEN <<>>
    ELSE IF Len(toks) = 1 THEN toks[1]
    ELSE LET front == SubSeq(toks, 1, Len(toks) - 1)
             last == toks[Len(toks)]
         IN  IF IsContinuation(last) THEN JoinTokens(front) \o <<last[3]>>
             ELSE JoinTokens(front) \o <<" ">> \o last

RECURSIVE CleanUp(_)
\* clean_up_tokenization: " ." becomes "."
CleanUp(s) ==
    IF Len(s) < 2 THEN s
    ELSE IF s[1] = " " /\ s[2] = "." THEN CleanUp(Tail(s))
    ELSE <<s[1]>> \o CleanUp(Tail(s))

\* tokenizer.decode(token_slice, skip_special_tokens=True)
Decode(toks) == CleanUp(JoinTokens(toks))

(***************************************************************************)
(* State.                                                                  *)
(*   loaded         FinBERTAnalyzer._loaded                                *)
(*   engine         FinBERTAnalyzer.tokenizer, .model and .pipe: 0 is None, *)
(*                  another number is the identity of the object held      *)
(*   classifier     what is known of the classifier behind self.pipe: it   *)
(*                  is deterministic or not, and for a deterministic one   *)
(*                  the outcome it gave for each chunk classified so far   *)
(*   history        the SentimentResult of the first analyze call on each  *)
(*                  text (kept for a deterministic classifier)             *)
(*   db             the committed rows of the tables speeches and          *)
(*                  sentiment_scores                                       *)
(*   sess           per process, the session of its get_session block: its *)
(*                  flushed, uncommitted rows and the calls made on it     *)
(*   op             per process, the running call of a repository function *)
(*   run            per process, the running call of run_sentiment_analysis *)
(*   pc             position of the running call ("idle": no call)         *)
(*   caller         which method was called: "split" (_split_into_chunks   *)
(*                  directly) or "analyze"                                 *)
(*   text           the argument of the running call                       *)
(*   sentences, idx, chunks, current_chunk                                 *)
(*                  the locals of _split_into_chunks; idx is the position  *)
(*                  of the for loop in sentences                           *)
(*   chunk_idx, all_scores, verdict                                        *)
(*                  the locals of analyze: the position of the for loop in *)
(*                  chunks, the scores collected per label, the            *)
(*                  SentimentResult returned                               *)
(*   outcomes       what the classifier did for each chunk of this call,   *)
(*                  in chunk order                                         *)
(*   pipe_calls     the arguments self.pipe was called with in this call,  *)
(*                  in call order                                          *)
(*   calc           a call of _calc_pct_change: its arguments and value    *)
(*   snapshot       a call of _fetch_single_symbol: the price history it   *)
(*                  was given, its locals and its value                    *)
(*   market_data    the rows of the table market_data                      *)
(*   published_at   the column published_at of the table speeches, in the  *)
(*                  order get_speeches returns its rows (latest first)     *)
(*   backfill       the running call of run_market_backfill                *)
(*   scan           the running call of get_records_from_chunks            *)
(***************************************************************************)
VARIABLES loaded, engine, classifier, history, pc, caller, text, sentences,
          idx, chunks, current_chunk, chunk_idx, all_scores, outcomes,
          pipe_calls, verdict, db, sess, op, run, calc, snapshot,
          market_data, published_at, backfill, scan

analyzerVars ==
    <<loaded, engine, classifier, history, pc, caller, text, sentences, idx,
      chunks, current_chunk, chunk_idx, all_scores, outcomes, pipe_calls,
      verdict>>

dbVars == <<db, sess, op, run>>

ingestVars == <<calc, snapshot, market_data, published_at, backfill, scan>>

vars == <<analyzerVars, dbVars, ingestVars>>

splitLocals == <<sentences, idx, chunks, current_chunk>>

analyzeLocals == <<chunk_idx, all_scores, outcomes, pipe_calls, verdict>>

\* sentiment.py:158
max_tokens == MAX_CHUNK_LENGTH - 2

\* sentiment.py:199, text[:2000]
FALLBACK_PREFIX_LENGTH == 2000

\* Fits with the comparison < in place of <=
Fits_Strict(s) == Len(Encode(s)) < max_tokens

\* sentiment.py:175, 185: the test of a candidate group and of a sentence
Fits(s) == Len(Encode(s)) <= max_tokens

\* FitsInOneChunk with the comparison < in place of <=
FitsInOneChunk_Strict(t) == Len(Encode(t)) < max_tokens

\* sentiment.py:161-162: the test of the whole text
FitsInOneChunk(t) == Len(Encode(t)) <= max_tokens

\* FastPathChunks returning the still empty list of chunks
FastPathChunks_Empty(t) == <<>>

\* sentiment.py:163
FastPathChunks(t) == <<t>>

\* Candidate without the separators: its token count is the sum of the
\* token counts of the sentences
Candidate_Concatenated(current, sentence) == Flatten(Append(current, sentence))

\* sentiment.py:172
Candidate(current, sentence) == Join(Append(current, sentence))

\* sentiment.py:180-181: the pending group is saved with a "." appended
FlushPending(cs, current) ==
    IF current # <<>> THEN Append(cs, Join(current) \o <<".">>) ELSE cs

\* Windows giving no window at all: a sentence that is too long is dropped
Windows_Dropped(toks, k) == <<>>

RECURSIVE Windows(_, _)
\* sentiment.py:189-192: the decoded windows of a token sequence, from the
\* 0-based position k on
Windows(toks, k) ==
    IF k >= Len(toks) THEN <<>>
    ELSE <<Decode(Slice(toks, k + 1, k + max_tokens))>>
         \o Windows(toks, k + max_tokens)

\* sentiment.py:195-199
FinalChunks(cs, current, t) ==
    LET withLast == IF current # <<>> THEN Append(cs, Join(current)) ELSE cs
    IN  IF withLast # <<>> THEN withLast
        ELSE <<Slice(t, 1, FALLBACK_PREFIX_LENGTH)>>

(***************************************************************************)
(* Floating-point arithmetic.  A float is a non-negative integer (a        *)
(* multiple of the smallest increment) with at most PRECISION significant  *)
(* bits; the result of every operation is rounded to the nearest float,    *)
(* ties to the even significand, as IEEE 754 does.                         *)
(***************************************************************************)
\* significant bits of a float (53 for a Python float)
PRECISION == 2

\* round(x, 4) keeps the multiples of this many increments (of 0.0001 for
\* a Python float)
ROUND_GRID == 2

RECURSIVE Pow2(_)
Pow2(n) == IF n = 0 THEN 1 ELSE 2 * Pow2(n - 1)

RECURSIVE StepFor(_, _, _)
\* the distance of neighbouring floats around num / den
StepFor(num, den, step) ==
    IF num < Pow2(PRECISION) * step * den THEN step
    ELSE StepFor(num, den, 2 * step)

\* the multiple of step nearest to num / den, ties to the even multiple
NearestMultiple(num, den, step) ==
    LET m == num \div (den * step)
        lo == m * step
        hi == lo + step
    IN  IF 2 * num < (lo + hi) * den THEN lo
        ELSE IF 2 * num > (lo + hi) * den THEN hi
        ELSE IF m % 2 = 0 THEN lo ELSE hi

\* the float nearest to num / den
RoundF(num, den) == NearestMultiple(num, den, StepFor(num, den, 1))

\* x + y on floats
FAdd(x, y) == RoundF(x + y, 1)

\* x / n on floats
FDiv(x, n) == RoundF(x, n)

RECURSIVE FSum(_)
\* sum(list): the elements are added from left to right, starting with 0
FSum(list) ==
    IF list = <<>> THEN 0
    ELSE FAdd(FSum(SubSeq(list, 1, Len(list) - 1)), list[Len(list)])

\* round(x, 4)
Round4(x) == RoundF(NearestMultiple(x, 1, ROUND_GRID), 1)

(***************************************************************************)
(* The classifier (self.pipe) and what analyze does with its results.      *)
(***************************************************************************)
\* the keys of all_scores, in insertion order (sentiment.py:99)
LabelOrder == <<"positive", "negative", "neutral">>

Labels == {LabelOrder[k] : k \in 1..Len(LabelOrder)}

\* the scores a classifier reports
Scores == {2, 3}

Entry(l, v) == [label |-> l, score |-> v]

\* a result list that reports the labels of m with the scores d
DistResults(m, d) ==
    SelectSeq([k \in 1..Len(LabelOrder) |-> Entry(LabelOrder[k], d[LabelOrder[k]])],
              LAMBDA e : e.label \in m)

\* a result list with an upper-case label and a label analyze does not know
OddResults == <<Entry("POSITIVE", 3), Entry("LABEL_3", 3)>>

FullResults == DistResults(Labels, [l \in Labels |-> 3])

ResultLists ==
    {DistResults(m, d) : m \in SUBSET Labels, d \in [Labels -> Scores]}
        \cup {OddResults}

\* what can happen to one chunk (sentiment.py:102-110): the pipe returns a
\* result list and every entry is read (ok), or an exception is raised
\* after `read` entries were read (read = 0 and no results: the pipe call
\* itself raised)
Outcomes ==
    {[results |-> r, ok |-> TRUE, read |-> Len(r)] : r \in ResultLists}
        \cup {[results |-> <<>>, ok |-> FALSE, read |-> 0]}
        \cup {[results |-> FullResults, ok |-> FALSE, read |-> k] : k \in 1..2}

\* str.lower() on the labels of the model
Lower(l) == IF l = "POSITIVE" THEN "positive" ELSE l

\* sentiment.py:99
NoScores == [l \in Labels |-> <<>>]

\* sentiment.py:105-107
AddEntry(scores, e) ==
    IF Lower(e.label) \in DOMAIN scores
    THEN [scores EXCEPT ![Lower(e.label)] = Append(@, e.score)]
    ELSE scores

RECURSIVE AddEntries(_, _)
\* sentiment.py:104-107
AddEntries(scores, entries) ==
    IF entries = <<>> THEN scores
    ELSE AddEntries(AddEntry(scores, Head(entries)), Tail(entries))

\* Accumulate with a 0 appended for every label a result does not report
Accumulate_ZeroForMissing(scores, o) ==
    LET read == AddEntries(scores, SubSeq(o.results, 1, o.read))
    IN  [l \in Labels |->
            IF o.ok /\ Len(read[l]) = Len(scores[l])
            THEN Append(read[l], 0) ELSE read[l]]

\* sentiment.py:102-110: the entries read before the exception, if any,
\* stay in all_scores
Accumulate(scores, o) == AddEntries(scores, SubSeq(o.results, 1, o.read))

\* sentiment.py:123-125
Average(list) == FDiv(FSum(list), Max(Len(list), 1))

RECURSIVE FirstMax(_, _, _)
\* max(scores, key=scores.get): the first key, in insertion order, whose
\* value no later key exceeds and no earlier key reaches
FirstMax(avg, k, best) ==
    IF k > Len(LabelOrder) THEN best
    ELSE IF avg[LabelOrder[k]] > avg[best] THEN FirstMax(avg, k + 1, LabelOrder[k])
    ELSE FirstMax(avg, k + 1, best)

RECURSIVE LastMax(_, _, _)
LastMax(avg, k, best) ==
    IF k > Len(LabelOrder) THEN best
    ELSE IF avg[LabelOrder[k]] >= avg[best] THEN LastMax(avg, k + 1, LabelOrder[k])
    ELSE LastMax(avg, k + 1, best)

\* Winner with the last of the tying labels winning
Winner_LastMax(avg) == LastMax(avg, 2, LabelOrder[1])

\* sentiment.py:133
Winner(avg) == FirstMax(avg, 2, LabelOrder[1])

\* sentiment.py:113
NoScoreAtAll(scores) == \A l \in Labels : scores[l] = <<>>

\* ZeroVerdict with a chunk count of 0
ZeroVerdict_NoChunks(n) ==
    [sentiment |-> "neutral", score |-> 0, positive_score |-> 0,
     negative_score |-> 0, neutral_score |-> 0, num_chunks |-> 0]

\* sentiment.py:114-121
ZeroVerdict(n) ==
    [sentiment |-> "neutral", score |-> 0, positive_score |-> 0,
     negative_score |-> 0, neutral_score |-> 0, num_chunks |-> n]

\* ScoreVerdict with the overall score rounded like the per-label scores
ScoreVerdict_RoundedScore(scores, n) ==
    LET avg == [l \in Labels |-> Average(scores[l])]
        overall_sentiment == Winner(avg)
    IN  [sentiment |-> overall_sentiment,
         score |-> Round4(avg[overall_sentiment]),
         positive_score |-> Round4(avg["positive"]),
         negative_score |-> Round4(avg["negative"]),
         neutral_score |-> Round4(avg["neutral"]),
         num_chunks |-> n]

\* sentiment.py:123-142
ScoreVerdict(scores, n) ==
    LET avg == [l \in Labels |-> Average(scores[l])]
        overall_sentiment == Winner(avg)
    IN  [sentiment |-> overall_sentiment,
         score |-> avg[overall_sentiment],
         positive_score |-> Round4(avg["positive"]),
         negative_score |-> Round4(avg["negative"]),
         neutral_score |-> Round4(avg["neutral"]),
         num_chunks |-> n]

\* no SentimentResult yet
NoVerdict ==
    [sentiment |-> "none", score |-> 0, positive_score |-> 0,
     negative_score |-> 0, neutral_score |-> 0, num_chunks |-> 0]

\* the texts handed to analyze
AnalyzeTexts == UNION {[1..n -> {"a"}] : n \in 0..MaxLen}

\* sentiment.py:50-52
NoEngine == [tokenizer |-> 0, model |-> 0, pipe |-> 0]

\* a new object is not the object the attribute held before
NewObject(old) == IF old = 1 THEN 2 ELSE 1

\* sentiment.py:61-76: the first n of the assignments to self.tokenizer,
\* self.model and self.pipe are made
AssignUpTo(e, n) ==
    [tokenizer |-> IF n >= 1 THEN NewObject(e.tokenizer) ELSE e.tokenizer,
     model |-> IF n >= 2 THEN NewObject(e.model) ELSE e.model,
     pipe |-> IF n >= 3 THEN NewObject(e.pipe) ELSE e.pipe]

\* a classifier nothing is assumed about
AnyClassifier == [deterministic |-> FALSE, table |-> <<>>]

\* a classifier that gives the same outcome whenever it gets the same
\* chunk; no chunk classified yet
DeterministicClassifier == [deterministic |-> TRUE, table |-> <<>>]

\* the texts and the outcomes a deterministic classifier is exercised
\* with: one text that fits in a chunk and one that is split
RepeatedTexts == {<<"a">>, [k \in 1..(max_tokens + 1) |-> "a"]}

RepeatedOutcomes ==
    {[results |-> <<>>, ok |-> FALSE, read |-> 0],
     [results |-> DistResults({"positive"}, [l \in Labels |-> 3]),
      ok |-> TRUE, read |-> 1],
     [results |-> DistResults(Labels, [l \in Labels |->
                                         IF l = "negative" THEN 3 ELSE 2]),
      ok |-> TRUE, read |-> 3]}

AnalyzeInputs(c) == IF c.deterministic THEN RepeatedTexts ELSE AnalyzeTexts

\* sentiment.py:103: what self.pipe(chunk) can do
PipeOutcomes(c, chunk) ==
    IF ~c.deterministic THEN Outcomes
    ELSE IF chunk \in DOMAIN c.table THEN {c.table[chunk]}
    ELSE RepeatedOutcomes

\* the classifier after it gave outcome o for chunk
Learn(c, chunk, o) ==
    IF c.deterministic /\ chunk \notin DOMAIN c.table
    THEN [c EXCEPT !.table = (chunk :> o) @@ c.table]
    ELSE c

\* the history after analyze(t) returned v
Remember(h, c, t, v) ==
    IF c.deterministic /\ t \notin DOMAIN h THEN (t :> v) @@ h ELSE h

(***************************************************************************)
(* The database (src/src/database) after init_db, and the processes that   *)
(* use it.                                                                 *)
(***************************************************************************)
\* run_analysis.py:28
MODEL_NAME == "finbert"

\* the processes that call repository functions and run_sentiment_analysis
Procs == {1, 2}

\* number of different URLs speeches are stored with
MaxUrls == 2
\* longest list handed to store_speeches_bulk
MaxBulk == 2

Urls == 1..MaxUrls

BulkLists == UNION {[1..n -> Urls] : n \in 0..MaxBulk}

\* models.py:35-96: the tables speeches and sentiment_scores, empty
EmptyDb == [speeches |-> <<>>, sentiments |-> <<>>]

\* no get_session block was entered yet
NoSession ==
    [state |-> "none", speeches |-> <<>>, sentiments |-> <<>>, log |-> <<>>,
     body |-> "none", commit |-> "none", raised |-> FALSE]

NoRow ==
    [speech_id |-> 0, model_name |-> "none", sentiment |-> "none",
     score |-> 0]

\* no repository function is running
NoOp ==
    [name |-> "none", pc |-> "none", url |-> 0, speeches |-> <<>>, k |-> 0,
     inserted |-> 0, row |-> NoRow, ret |-> <<>>, before |-> EmptyDb]

\* run_sentiment_analysis is not running
NoRun ==
    [pc |-> "idle", speeches |-> <<>>, i |-> 0, analyzed |-> 0,
     result |-> NoVerdict, ret |-> 0, calls |-> <<>>, before |-> EmptyDb]

\* connection.py:63-70: the tables exist and are empty, nothing is running
Installed ==
    /\ db = EmptyDb
    /\ sess = [p \in Procs |-> NoSession]
    /\ op = [p \in Procs |-> NoOp]
    /\ run = [p \in Procs |-> NoRun]

(***************************************************************************)
(* Market data (market_data.py).  A price is an integer, in units of half  *)
(* the step round(x, 4) rounds to; a percentage change is the exact        *)
(* fraction [num, den] in lowest terms.  An optional value is a sequence:  *)
(* None is <<>>, the value x is <<x>>.                                     *)
(***************************************************************************)
\* largest closing price
MaxPrice == 2

\* most rows of a price history
MaxHist == 2

\* number of symbols fetched for a date
MaxSymbols == 2

\* number of distinct speech dates
MaxDates == 2

\* most rows of the table speeches
MaxSpeeches == 2

\* most calls of run_market_backfill
MaxRuns == 2

None == <<>>

Some(x) == <<x>>

\* closing prices: zero, positive and negative ones
Prices == (-1)..MaxPrice

OptPrices == {None} \cup {Some(x) : x \in Prices}

Abs(x) == IF x < 0 THEN -x ELSE x

RECURSIVE Gcd(_, _)
Gcd(a, b) == IF b = 0 THEN a ELSE Gcd(b, a % b)

\* the fraction num / den (den # 0) in lowest terms with a positive denominator
Ratio(num, den) ==
    LET g == Gcd(Abs(num), Abs(den))
        s == IF den < 0 THEN -1 ELSE 1
    IN  [num |-> (s * num) \div g, den |-> (s * den) \div g]

\* market_data.py:180-184
CalcPctChange_Swapped(price_before, price_after) ==
    IF price_before = None \/ price_after = None THEN None
    ELSE IF price_before[1] = 0 THEN None
    ELSE Some(Ratio((price_before[1] - price_after[1]) * 100, price_before[1]))

\* market_data.py:180-184
CalcPctChange(price_before, price_after) ==
    IF price_before = None \/ price_after = None THEN None
    ELSE IF price_before[1] = 0 THEN None
    ELSE Some(Ratio((price_after[1] - price_before[1]) * 100, price_before[1]))

\* the days of a price history, counted from the speech date: the window
\* of market_data.py:69-70 holds them
HistDays == {-1, 0, 1, 7}

\* ticker.history(...): rows [day, Close], earliest first, one per day
Histories ==
    {h \in UNION {[1..n -> [day : HistDays, Close : Prices]] : n \in 0..MaxHist} :
        \A i \in 1..(Len(h) - 1) : h[i].day < h[i + 1].day}

\* market_data.py:143-177
GetClosestPrice(hist, target) ==
    LET exact == {i \in 1..Len(hist) : hist[i].day = target}
        prior == {i \in 1..Len(hist) : hist[i].day <= target}
        after == {i \in 1..Len(hist) : hist[i].day >= target}
    IN  IF hist = <<>> THEN None
        ELSE IF exact # {} THEN Some(hist[SetMin(exact)].Close)
        ELSE IF prior # {} THEN Some(hist[CHOOSE i \in prior : \A j \in prior : j <= i].Close)
        ELSE IF after # {} THEN Some(hist[SetMin(after)].Close)
        ELSE None

\* round(x, 4) of a price
RoundPrice(x) == NearestMultiple(x, 1, ROUND_GRID)

\* round(x, 4) of a percentage change
RoundChange(q) == NearestMultiple(q.num, q.den, ROUND_GRID)

\* bool(x) of an optional price: None and 0.0 are false
TruthyPrice(x) == x # None /\ x[1] # 0

\* bool(x) of an optional change: None and 0.0 are false
TruthyChange(q) == q # None /\ q[1].num # 0

\* market_data.py:135-136
PriceField(x) == IF TruthyPrice(x) THEN Some(RoundPrice(x[1])) ELSE None

\* market_data.py:137-138
ChangeField(q) == IF TruthyChange(q) THEN Some(RoundChange(q[1])) ELSE None

Symbols == 1..MaxSymbols

Dates == 1..MaxDates

\* market_data.py:85-140: the locals and the value of _fetch_single_symbol
\* for the history hist; ret is None or the MarketSnapshot
FetchSingleSymbol(name, speech_date, hist) ==
    LET price_at_speech == GetClosestPrice(hist, 0)
        price_1d == GetClosestPrice(hist, 1)
        price_1w == GetClosestPrice(hist, 7)
        change_1d == CalcPctChange(price_at_speech, price_1d)
        change_1w == CalcPctChange(price_at_speech, price_1w)
    IN  IF hist = <<>> \/ price_at_speech = None
        THEN [price_at_speech |-> price_at_speech, price_1d |-> None,
              price_1w |-> None, change_1d |-> None, change_1w |-> None,
              ret |-> None]
        ELSE [price_at_speech |-> price_at_speech, price_1d |-> price_1d,
              price_1w |-> price_1w, change_1d |-> change_1d,
              change_1w |-> change_1w,
              ret |-> Some([symbol |-> name,
                            price_at_speech |-> RoundPrice(price_at_speech[1]),
                            price_1d_after |-> PriceField(price_1d),
                            price_1w_after |-> PriceField(price_1w),
                            change_1d_pct |-> ChangeField(change_1d),
                            change_1w_pct |-> ChangeField(change_1w),
                            speech_date |-> speech_date])]

NoCalc == [called |-> FALSE, price_before |-> None, price_after |-> None, ret |-> None]

NoSnapshot ==
    [called |-> FALSE, hist |-> <<>>, price_at_speech |-> None,
     price_1d |-> None, price_1w |-> None, change_1d |-> None,
     change_1w |-> None, ret |-> None]

\* run_backfill.py:89-91: no call of run_market_backfill is running; had is
\* the set of dates that had market data when the last call began, fetched
\* the dates it fetched, runs the number of calls that have returned
NoBackfill ==
    [pc |-> "idle", speeches |-> <<>>, i |-> 0, processed_dates |-> {},
     snapshots |-> <<>>, j |-> 0, stored |-> 0, ret |-> 0, had |-> {},
     fetched |-> <<>>, runs |-> 0]

(***************************************************************************)
(* The scan of the ECB publication database (ecb_backfill.py).  The        *)
(* numbers of rows are scaled down.                                        *)
(***************************************************************************)
\* ecb_backfill.py:42: records per chunk
CHUNK_SIZE == 2

\* ecb_backfill.py:43: records per group
GROUP_SIZE == 4

\* ecb_backfill.py:208: the scan stops once it has passed this many rows
SCAN_LIMIT == 3

\* largest max_records
MaxRecords == 2

\* most groups a scan reads
MaxGroups == 2

\* ecb_backfill.py:164-167: no call of get_records_from_chunks is running
NoScan ==
    [pc |-> "idle", speech_indices |-> {}, max_records |-> 0,
     records |-> <<>>, global_row_idx |-> 0, group_idx |-> 0,
     chunk_in_group |-> 0, ret |-> <<>>]

\* no ingestion call has been made, the tables are empty
Quiet ==
    /\ calc = NoCalc
    /\ snapshot = NoSnapshot
    /\ market_data = <<>>
    /\ published_at = <<>>
    /\ backfill = NoBackfill
    /\ scan = NoScan

\* sentiment.py:48-53: the analyzer after __init__, no call running
Constructed ==
    /\ loaded = FALSE
    /\ engine = NoEngine
    /\ history = <<>>
    /\ pc = "idle"
    /\ caller = "none"
    /\ text = <<>>
    /\ sentences = <<>>
    /\ idx = 0
    /\ chunks = <<>>
    /\ current_chunk = <<>>
    /\ chunk_idx = 0
    /\ all_scores = NoScores
    /\ outcomes = <<>>
    /\ pipe_calls = <<>>
    /\ verdict = NoVerdict

Init ==
    /\ Constructed
    /\ classifier = AnyClassifier
    /\ Installed
    /\ Quiet

\* load_model without the test of _loaded: every call loads again
LoadModel_Reloads ==
    /\ pc = "idle"
    /\ engine' = AssignUpTo(engine, 3)
    /\ loaded' = TRUE
    /\ UNCHANGED <<pc, caller, text, splitLocals>>
    /\ UNCHANGED analyzeLocals
    /\ UNCHANGED <<classifier, history>>
    /\ UNCHANGED <<dbVars, ingestVars>>

\* sentiment.py:55-78: a call of load_model that returns
LoadModel ==
    /\ pc = "idle"
    /\ IF loaded
       THEN UNCHANGED <<loaded, engine>>
       ELSE /\ engine' = AssignUpTo(engine, 3)
            /\ loaded' = TRUE
    /\ UNCHANGED <<pc, caller, text, splitLocals>>
    /\ UNCHANGED analyzeLocals
    /\ UNCHANGED <<classifier, history>>
    /\ UNCHANGED <<dbVars, ingestVars>>

\* sentiment.py:57-76: a call of load_model on an analyzer that is not
\* loaded raises (a from_pretrained call or pipeline(...) fails) after n
\* of the three attributes were assigned; _loaded stays False
LoadModelFails ==
    /\ pc = "idle"
    /\ ~loaded
    /\ \E n \in 0..2 : engine' = AssignUpTo(engine, n)
    /\ pc' = "raised"
    /\ caller' = "load_model"
    /\ UNCHANGED <<loaded, text, splitLocals>>
    /\ UNCHANGED analyzeLocals
    /\ UNCHANGED <<classifier, history>>
    /\ UNCHANGED <<dbVars, ingestVars>>

\* a direct call of _split_into_chunks(t) on a loaded analyzer
CallSplit ==
    /\ pc = "idle"
    /\ loaded
    /\ \E t \in Texts :
        /\ text' = t
        /\ caller' = "split"
        /\ pc' = "split"
    /\ UNCHANGED <<loaded, engine, splitLocals>>
    /\ UNCHANGED analyzeLocals
    /\ UNCHANGED <<classifier, history>>
    /\ UNCHANGED <<dbVars, ingestVars>>

\* sentiment.py:158-163: the text fits in a single chunk
FastPath ==
    /\ pc = "split"
    /\ FitsInOneChunk(text)
    /\ chunks' = FastPathChunks(text)
    /\ pc' = "split_done"
    /\ UNCHANGED <<loaded, engine, caller, text, sentences, idx, current_chunk>>
    /\ UNCHANGED analyzeLocals
    /\ UNCHANGED <<classifier, history>>
    /\ UNCHANGED <<dbVars, ingestVars>>

\* sentiment.py:165-168
StartSentences ==
    /\ pc = "split"
    /\ ~FitsInOneChunk(text)
    /\ sentences' = SplitSentences(ReplaceNewlines(text))
    /\ chunks' = <<>>
    /\ current_chunk' = <<>>
    /\ idx' = 1
    /\ pc' = "loop"
    /\ UNCHANGED <<loaded, engine, caller, text>>
    /\ UNCHANGED analyzeLocals
    /\ UNCHANGED <<classifier, history>>
    /\ UNCHANGED <<dbVars, ingestVars>>

\* sentiment.py:170-177: the sentence fits into the pending group
LoopAppend ==
    /\ pc = "loop"
    /\ idx <= Len(sentences)
    /\ Fits(Candidate(current_chunk, sentences[idx]))
    /\ current_chunk' = Append(current_chunk, sentences[idx])
    /\ idx' = idx + 1
    /\ UNCHANGED <<loaded, engine, pc, caller, text, sentences, chunks>>
    /\ UNCHANGED analyzeLocals
    /\ UNCHANGED <<classifier, history>>
    /\ UNCHANGED <<dbVars, ingestVars>>

\* LoopStartNew with the next group started empty: the sentence is lost
LoopStartNew_LosesSentence ==
    /\ pc = "loop"
    /\ idx <= Len(sentences)
    /\ ~Fits(Candidate(current_chunk, sentences[idx]))
    /\ Fits(sentences[idx])
    /\ chunks' = FlushPending(chunks, current_chunk)
    /\ current_chunk' = <<>>
    /\ idx' = idx + 1
    /\ UNCHANGED <<loaded, engine, pc, caller, text, sentences>>
    /\ UNCHANGED analyzeLocals
    /\ UNCHANGED <<classifier, history>>
    /\ UNCHANGED <<dbVars, ingestVars>>

\* sentiment.py:178-186: the pending group is saved, the sentence starts
\* the next group
LoopStartNew ==
    /\ pc = "loop"
    /\ idx <= Len(sentences)
    /\ ~Fits(Candidate(current_chunk, sentences[idx]))
    /\ Fits(sentences[idx])
    /\ chunks' = FlushPending(chunks, current_chunk)
    /\ current_chunk' = <<sentences[idx]>>
    /\ idx' = idx + 1
    /\ UNCHANGED <<loaded, engine, pc, caller, text, sentences>>
    /\ UNCHANGED analyzeLocals
    /\ UNCHANGED <<classifier, history>>
    /\ UNCHANGED <<dbVars, ingestVars>>

\* sentiment.py:178-181, 187-193: the pending group is saved, the sentence
\* is split by token position
LoopHardSplit ==
    /\ pc = "loop"
    /\ idx <= Len(sentences)
    /\ ~Fits(Candidate(current_chunk, sentences[idx]))
    /\ ~Fits(sentences[idx])
    /\ chunks' = FlushPending(chunks, current_chunk)
                    \o Windows(Encode(sentences[idx]), 0)
    /\ current_chunk' = <<>>
    /\ idx' = idx + 1
    /\ UNCHANGED <<loaded, engine, pc, caller, text, sentences>>
    /\ UNCHANGED analyzeLocals
    /\ UNCHANGED <<classifier, history>>
    /\ UNCHANGED <<dbVars, ingestVars>>

\* sentiment.py:195-199
LoopEnd ==
    /\ pc = "loop"
    /\ idx > Len(sentences)
    /\ chunks' = FinalChunks(chunks, current_chunk, text)
    /\ pc' = "split_done"
    /\ UNCHANGED <<loaded, engine, caller, text, sentences, idx, current_chunk>>
    /\ UNCHANGED analyzeLocals
    /\ UNCHANGED <<classifier, history>>
    /\ UNCHANGED <<dbVars, ingestVars>>

\* the direct call returns its chunks to the caller
ReturnSplit ==
    /\ pc = "split_done"
    /\ caller = "split"
    /\ pc' = "idle"
    /\ caller' = "none"
    /\ text' = <<>>
    /\ sentences' = <<>>
    /\ idx' = 0
    /\ chunks' = <<>>
    /\ current_chunk' = <<>>
    /\ UNCHANGED <<loaded, engine>>
    /\ UNCHANGED analyzeLocals
    /\ UNCHANGED <<classifier, history>>
    /\ UNCHANGED <<dbVars, ingestVars>>

\* analyze with a load_model that loads on every call
CallAnalyze_Reloads ==
    /\ pc = "idle"
    /\ \E t \in AnalyzeInputs(classifier) :
        /\ text' = t
        /\ caller' = "analyze"
        /\ pc' = "split"
    /\ engine' = AssignUpTo(engine, 3)
    /\ loaded' = TRUE
    /\ UNCHANGED splitLocals
    /\ UNCHANGED analyzeLocals
    /\ UNCHANGED <<classifier, history>>
    /\ UNCHANGED <<dbVars, ingestVars>>

\* sentiment.py:80-95: analyze(t) loads the model if needed and splits t
CallAnalyze ==
    /\ pc = "idle"
    /\ \E t \in AnalyzeInputs(classifier) :
        /\ text' = t
        /\ caller' = "analyze"
        /\ pc' = "split"
    /\ IF loaded
       THEN UNCHANGED <<loaded, engine>>
       ELSE /\ engine' = AssignUpTo(engine, 3)
            /\ loaded' = TRUE
    /\ UNCHANGED splitLocals
    /\ UNCHANGED analyzeLocals
    /\ UNCHANGED <<classifier, history>>
    /\ UNCHANGED <<dbVars, ingestVars>>

\* sentiment.py:93: the load_model call of analyze(t) raises; nothing in
\* analyze catches it
CallAnalyzeLoadFails ==
    /\ pc = "idle"
    /\ ~loaded
    /\ \E t \in AnalyzeInputs(classifier) : text' = t
    /\ \E n \in 0..2 : engine' = AssignUpTo(engine, n)
    /\ pc' = "raised"
    /\ caller' = "analyze"
    /\ UNCHANGED <<loaded, splitLocals>>
    /\ UNCHANGED analyzeLocals
    /\ UNCHANGED <<classifier, history>>
    /\ UNCHANGED <<dbVars, ingestVars>>

\* the exception reaches the caller of load_model or analyze
ReturnRaised ==
    /\ pc = "raised"
    /\ pc' = "idle"
    /\ caller' = "none"
    /\ text' = <<>>
    /\ UNCHANGED <<loaded, engine, splitLocals>>
    /\ UNCHANGED analyzeLocals
    /\ UNCHANGED <<classifier, history>>
    /\ UNCHANGED <<dbVars, ingestVars>>

\* sentiment.py:95-99: the chunks are back, the loop over them starts
BeginClassify ==
    /\ pc = "split_done"
    /\ caller = "analyze"
    /\ all_scores' = NoScores
    /\ outcomes' = <<>>
    /\ pipe_calls' = <<>>
    /\ chunk_idx' = 1
    /\ pc' = "classify"
    /\ UNCHANGED <<loaded, engine, caller, text, splitLocals, verdict>>
    /\ UNCHANGED <<classifier, history>>
    /\ UNCHANGED <<dbVars, ingestVars>>

\* sentiment.py:101-107: the chunk is classified and its scores are kept
ClassifyOk ==
    /\ pc = "classify"
    /\ chunk_idx <= Len(chunks)
    /\ \E o \in PipeOutcomes(classifier, chunks[chunk_idx]) :
        /\ o.ok
        /\ all_scores' = Accumulate(all_scores, o)
        /\ outcomes' = Append(outcomes, o)
        /\ classifier' = Learn(classifier, chunks[chunk_idx], o)
    /\ pipe_calls' = Append(pipe_calls, chunks[chunk_idx])
    /\ chunk_idx' = chunk_idx + 1
    /\ UNCHANGED <<loaded, engine, pc, caller, text, splitLocals, verdict>>
    /\ UNCHANGED history
    /\ UNCHANGED <<dbVars, ingestVars>>

\* ClassifyFails with the loop left at the first exception
ClassifyFails_Abort ==
    /\ pc = "classify"
    /\ chunk_idx <= Len(chunks)
    /\ \E o \in PipeOutcomes(classifier, chunks[chunk_idx]) :
        /\ ~o.ok
        /\ all_scores' = Accumulate(all_scores, o)
        /\ outcomes' = Append(outcomes, o)
        /\ classifier' = Learn(classifier, chunks[chunk_idx], o)
    /\ pipe_calls' = Append(pipe_calls, chunks[chunk_idx])
    /\ chunk_idx' = Len(chunks) + 1
    /\ UNCHANGED <<loaded, engine, pc, caller, text, splitLocals, verdict>>
    /\ UNCHANGED history
    /\ UNCHANGED <<dbVars, ingestVars>>

\* sentiment.py:101-110: an exception is raised for the chunk, logged, and
\* the loop goes on
ClassifyFails ==
    /\ pc = "classify"
    /\ chunk_idx <= Len(chunks)
    /\ \E o \in PipeOutcomes(classifier, chunks[chunk_idx]) :
        /\ ~o.ok
        /\ all_scores' = Accumulate(all_scores, o)
        /\ outcomes' = Append(outcomes, o)
        /\ classifier' = Learn(classifier, chunks[chunk_idx], o)
    /\ pipe_calls' = Append(pipe_calls, chunks[chunk_idx])
    /\ chunk_idx' = chunk_idx + 1
    /\ UNCHANGED <<loaded, engine, pc, caller, text, splitLocals, verdict>>
    /\ UNCHANGED history
    /\ UNCHANGED <<dbVars, ingestVars>>

\* sentiment.py:112-121: no score was collected
ReturnZero ==
    /\ pc = "classify"
    /\ chunk_idx > Len(chunks)
    /\ NoScoreAtAll(all_scores)
    /\ verdict' = ZeroVerdict(Len(chunks))
    /\ pc' = "analyze_done"
    /\ UNCHANGED <<loaded, engine, caller, text, splitLocals, chunk_idx, all_scores,
                   outcomes, pipe_calls>>
    /\ UNCHANGED <<classifier, history>>
    /\ UNCHANGED <<dbVars, ingestVars>>

\* ReturnScores with num_chunks counting only the chunks that were
\* classified
ReturnScores_CountsClassified ==
    /\ pc = "classify"
    /\ chunk_idx > Len(chunks)
    /\ ~NoScoreAtAll(all_scores)
    /\ verdict' = ScoreVerdict(all_scores,
                               Len(SelectSeq(outcomes, LAMBDA o : o.ok)))
    /\ pc' = "analyze_done"
    /\ UNCHANGED <<loaded, engine, caller, text, splitLocals, chunk_idx, all_scores,
                   outcomes, pipe_calls>>
    /\ UNCHANGED <<classifier, history>>
    /\ UNCHANGED <<dbVars, ingestVars>>

\* sentiment.py:112-142: the scores are averaged
ReturnScores ==
    /\ pc = "classify"
    /\ chunk_idx > Len(chunks)
    /\ ~NoScoreAtAll(all_scores)
    /\ verdict' = ScoreVerdict(all_scores, Len(chunks))
    /\ pc' = "analyze_done"
    /\ UNCHANGED <<loaded, engine, caller, text, splitLocals, chunk_idx, all_scores,
                   outcomes, pipe_calls>>
    /\ UNCHANGED <<classifier, history>>
    /\ UNCHANGED <<dbVars, ingestVars>>

\* the SentimentResult goes to the caller of analyze
ReturnAnalyze ==
    /\ pc = "analyze_done"
    /\ pc' = "idle"
    /\ caller' = "none"
    /\ text' = <<>>
    /\ sentences' = <<>>
    /\ idx' = 0
    /\ chunks' = <<>>
    /\ current_chunk' = <<>>
    /\ chunk_idx' = 0
    /\ all_scores' = NoScores
    /\ outcomes' = <<>>
    /\ pipe_calls' = <<>>
    /\ verdict' = NoVerdict
    /\ history' = Remember(history, classifier, text, verdict)
    /\ UNCHANGED <<loaded, engine, classifier>>
    /\ UNCHANGED <<dbVars, ingestVars>>

Next ==
    \/ LoadModel
    \/ CallSplit
    \/ FastPath
    \/ StartSentences
    \/ LoopAppend
    \/ LoopStartNew
    \/ LoopHardSplit
    \/ LoopEnd
    \/ ReturnSplit
    \/ CallAnalyze
    \/ BeginClassify
    \/ ClassifyOk
    \/ ClassifyFails
    \/ ReturnZero
    \/ ReturnScores
    \/ ReturnAnalyze

Spec == Init /\ [][Next]_vars

(***************************************************************************)
(* The analyzer used through load_model and analyze only, with a           *)
(* deterministic classifier and a load_model that can fail.                *)
(***************************************************************************)
InitEngine ==
    /\ Constructed
    /\ classifier = DeterministicClassifier
    /\ Installed
    /\ Quiet

NextEngine ==
    \/ LoadModel
    \/ LoadModelFails
    \/ CallAnalyze
    \/ CallAnalyzeLoadFails
    \/ ReturnRaised
    \/ FastPath
    \/ StartSentences
    \/ LoopHardSplit
    \/ LoopEnd
    \/ BeginClassify
    \/ ClassifyOk
    \/ ClassifyFails
    \/ ReturnZero
    \/ ReturnScores
    \/ ReturnAnalyze

SpecEngine == InitEngine /\ [][NextEngine]_vars

TypeOK ==
    /\ loaded \in BOOLEAN
    /\ engine \in [{"tokenizer", "model", "pipe"} -> 0..2]
    /\ pc \in {"idle", "split", "loop", "split_done", "classify",
              "analyze_done", "raised"}
    /\ caller \in {"none", "split", "analyze", "load_model"}
    /\ text \in Texts
    /\ chunk_idx \in 0..(Len(chunks) + 1)
    /\ Len(outcomes) <= Len(chunks)

(***************************************************************************)
(* Properties of _split_into_chunks.                                       *)
(***************************************************************************)
TokenCount(s) == Len(Encode(s))

Ceil(n, d) == (n + d - 1) \div d

\* the call of _split_into_chunks has returned
Returned == pc = "split_done"

\* the call of _split_into_chunks has returned from the sentence loop
ReturnedFromLoop == pc = "split_done" /\ TokenCount(text) > max_tokens

\* C1: every chunk _split_into_chunks returns tokenizes to at most
\* max_tokens tokens.
C1_TokenBudget ==
    Returned => \A k \in 1..Len(chunks) : TokenCount(chunks[k]) <= max_tokens

\* C2: a call on a non-empty text returns at least one chunk, and the call
\* is never stuck before it returns, whatever the shape of the text.
C2_NonEmpty ==
    /\ (Returned /\ text # <<>>) => Len(chunks) >= 1
    /\ pc \in {"split", "loop"} =>
          ENABLED (FastPath \/ StartSentences \/ LoopAppend \/ LoopStartNew
                     \/ LoopHardSplit \/ LoopEnd)

\* a non-empty text made of separators only was split into sentences
C2_Witness ==
    /\ ReturnedFromLoop
    /\ \A k \in 1..Len(text) : text[k] \in {".", " "}
    /\ Len(sentences) >= 2
    /\ Len(chunks) >= 1

\* C3: a text that tokenizes to at most max_tokens tokens comes back as
\* exactly one chunk, the text itself.
C3_FastPath ==
    (Returned /\ TokenCount(text) <= max_tokens) => chunks = <<text>>

\* a text with a newline and a sentence separator came back unchanged
C3_Witness ==
    /\ Returned
    /\ TokenCount(text) = max_tokens
    /\ \E k \in 1..Len(text) : text[k] = "\n"
    /\ SepAt(text) # {}
    /\ chunks = <<text>>

\* the windows of max_tokens tokens of a sentence, decoded
TokenWindows(s) ==
    LET toks == Encode(s)
        n == Len(toks)
    IN  [j \in 1..Ceil(n, max_tokens) |->
            Decode(SubSeq(toks, (j - 1) * max_tokens + 1,
                          Min(j * max_tokens, n)))]

\* C4: a sentence of n > max_tokens tokens adds exactly ceil(n / max_tokens)
\* chunks, the decoded consecutive windows of max_tokens tokens of its token
\* sequence, each within the budget, and leaves the pending group empty.
C4_HardSplit ==
    [][(pc = "loop" /\ idx <= Len(sentences)
          /\ TokenCount(sentences[idx]) > max_tokens)
       => LET n == TokenCount(sentences[idx])
              base == Len(chunks) + (IF current_chunk # <<>> THEN 1 ELSE 0)
              added == SubSeq(chunks', base + 1, Len(chunks'))
          IN  /\ Len(added) = Ceil(n, max_tokens)
              /\ added = TokenWindows(sentences[idx])
              /\ \A j \in 1..Len(added) : TokenCount(added[j]) <= max_tokens
              /\ current_chunk' = <<>>]_vars

\* the characters of a text that are letters, in order
LettersOf(s) == SelectSeq(s, LAMBDA c : c \in Letters)

\* the ways to cut sentences 1..n into consecutive blocks: a cut after
\* every position of the set
CutSets(n) == SUBSET (1..(n - 1))

RECURSIVE BlocksFrom(_, _, _)
\* the blocks <<lo, hi>> of the cut set C, from sentence lo on
BlocksFrom(lo, n, C) ==
    IF lo > n THEN <<>>
    ELSE LET later == {c \in C : c >= lo}
             hi == IF later = {} THEN n ELSE SetMin(later)
         IN  <<<<lo, hi>>>> \o BlocksFrom(hi + 1, n, C)

OverLong(s) == TokenCount(s) > max_tokens

\* a block is a single over-long sentence
IsHardSplit(ss, b) == b[1] = b[2] /\ OverLong(ss[b[1]])

\* the chunks a block stands for: the windows of an over-long sentence, or
\* the joined sentences of a group
BlockChunks(ss, b) ==
    IF IsHardSplit(ss, b) THEN TokenWindows(ss[b[1]])
    ELSE <<Join(SubSeq(ss, b[1], b[2]))>>

\* for every chunk of a block, whether it is a group (a group may carry the
\* "." appended when it was saved)
BlockKinds(ss, b) ==
    IF IsHardSplit(ss, b) THEN [j \in 1..Len(TokenWindows(ss[b[1]])) |-> FALSE]
    ELSE <<TRUE>>

GroupingChunks(ss, C) ==
    LET bs == BlocksFrom(1, Len(ss), C)
    IN  Flatten([k \in 1..Len(bs) |-> BlockChunks(ss, bs[k])])

GroupingKinds(ss, C) ==
    LET bs == BlocksFrom(1, Len(ss), C)
    IN  Flatten([k \in 1..Len(bs) |-> BlockKinds(ss, bs[k])])

\* the chunks are the blocks of the cut set C, in order
ChunksAreGrouping(cs, ss, C) ==
    LET expected == GroupingChunks(ss, C)
        isGroup == GroupingKinds(ss, C)
    IN  /\ Len(cs) = Len(expected)
        /\ \A k \in 1..Len(cs) :
              \/ cs[k] = expected[k]
              \/ isGroup[k] /\ cs[k] = expected[k] \o <<".">>

ValidGrouping(ss, C) ==
    LET bs == BlocksFrom(1, Len(ss), C)
    IN  \A k \in 1..Len(bs) :
           \/ IsHardSplit(ss, bs[k])
           \/ TokenCount(Join(SubSeq(ss, bs[k][1], bs[k][2]))) <= max_tokens

\* C6: no cutting of the sentence sequence into consecutive within-budget
\* groups (over-long sentences hard-split) has fewer chunks than the
\* returned list.
C6_Minimal ==
    ReturnedFromLoop =>
        \A C \in CutSets(Len(sentences)) :
            ValidGrouping(sentences, C) =>
                Len(chunks) <= Len(GroupingChunks(sentences, C))

\* the returned list packs two sentences into a group while a valid cutting
\* with more chunks exists
C6_Witness ==
    /\ ReturnedFromLoop
    /\ Len(chunks) < Len(sentences)
    /\ \E C \in CutSets(Len(sentences)) :
          /\ ValidGrouping(sentences, C)
          /\ Len(chunks) < Len(GroupingChunks(sentences, C))

(***************************************************************************)
(* Properties of the aggregation in analyze.                               *)
(***************************************************************************)
\* analyze has built its SentimentResult
AnalyzeDone == pc = "analyze_done"

\* the scores one chunk result reported for a label: those of the entries
\* that were read
ReportedBy(o, l) ==
    LET read == SelectSeq(SubSeq(o.results, 1, o.read),
                          LAMBDA e : Lower(e.label) = l)
    IN  [k \in 1..Len(read) |-> read[k].score]

\* the scores the chunk results of a call reported for a label, in order
ReportedIn(os, l) == Flatten([k \in 1..Len(os) |-> ReportedBy(os[k], l)])

Reported(l) == ReportedIn(outcomes, l)

SomeScoreReported == \E l \in Labels : Reported(l) # <<>>

RECURSIVE SumInt(_)
\* the exact sum
SumInt(list) == IF list = <<>> THEN 0 ELSE Head(list) + SumInt(Tail(list))

\* the mean of a label's reported scores as floating-point arithmetic
\* gives it: the sum from left to right, divided by the count
FloatMean(list) == FDiv(FSum(list), IF list = <<>> THEN 1 ELSE Len(list))

\* the per-label score of the verdict
LabelScore(v, l) ==
    IF l = "positive" THEN v.positive_score
    ELSE IF l = "negative" THEN v.negative_score
    ELSE v.neutral_score

Priority(l) == IF l = "positive" THEN 1 ELSE IF l = "negative" THEN 2 ELSE 3

C9_ScoreOfWinner ==
    AnalyzeDone =>
        IF SomeScoreReported
        THEN verdict.score = FloatMean(Reported(verdict.sentiment))
        ELSE verdict.score = 0

\* a verdict whose score round(x, 4) would change
C9_Witness ==
    /\ AnalyzeDone
    /\ SomeScoreReported
    /\ Len(outcomes) >= 2
    /\ verdict.score > 0
    /\ Round4(verdict.score) # verdict.score

\* the aggregation of analyze, applied to a sequence of chunk outcomes
RECURSIVE AccumulateAll(_, _)
AccumulateAll(scores, os) ==
    IF os = <<>> THEN scores
    ELSE AccumulateAll(Accumulate(scores, Head(os)), Tail(os))

VerdictFor(os) ==
    LET scores == AccumulateAll(NoScores, os)
    IN  IF NoScoreAtAll(scores) THEN ZeroVerdict(Len(os))
        ELSE ScoreVerdict(scores, Len(os))

\* C10: the verdict does not depend on the order of the chunk results:
\* every permutation of them aggregates to the verdict analyze returned.
C10_OrderIndependent ==
    AnalyzeDone =>
        \A p \in Permutations(1..Len(outcomes)) :
            VerdictFor([k \in 1..Len(outcomes) |-> outcomes[p[k]]]) = verdict

(***************************************************************************)
(* Failures of the classifier.                                             *)
(***************************************************************************)
\* the pipe call itself raised: nothing was read
PipeRaised(o) == ~o.ok /\ o.read = 0

\* no entry of the result list has one of the three labels
CarriesNoLabel(o) ==
    \A k \in 1..Len(o.results) : Lower(o.results[k].label) \notin Labels

NothingToAggregate ==
    \A k \in 1..Len(outcomes) :
        PipeRaised(outcomes[k]) \/ CarriesNoLabel(outcomes[k])

\* C11: when the classification of every chunk fails, or no result carries
\* one of the three labels, analyze returns (it does not raise) the verdict
\* neutral with score 0 and all per-label scores 0, and num_chunks is the
\* number of chunks the text was split into.
C11_ZeroVerdict ==
    /\ (pc = "classify" /\ chunk_idx > Len(chunks) /\ NothingToAggregate)
            => ENABLED ReturnZero
    /\ (AnalyzeDone /\ NothingToAggregate)
            => verdict = [sentiment |-> "neutral", score |-> 0,
                          positive_score |-> 0, negative_score |-> 0,
                          neutral_score |-> 0, num_chunks |-> Len(chunks)]

\* every one of several chunks failed, and the verdict counts them
C11_Witness ==
    /\ AnalyzeDone
    /\ Len(chunks) >= 2
    /\ \A k \in 1..Len(outcomes) : PipeRaised(outcomes[k])
    /\ verdict.sentiment = "neutral"
    /\ verdict.num_chunks = Len(chunks)

\* C12: within one analyze call the classifier is called exactly once per
\* chunk, in chunk order, whatever happened to the earlier chunks: after
\* k steps of the loop the calls made are the first k chunks, a failed
\* chunk is not called again, and at the end every chunk has been called.
C12_OncePerChunkInOrder ==
    /\ pc \in {"classify", "analyze_done"} =>
        /\ Len(pipe_calls) <= Len(chunks)
        /\ pipe_calls = SubSeq(chunks, 1, Len(pipe_calls))
        /\ Len(outcomes) = Len(pipe_calls)
    /\ pc = "classify" => Len(pipe_calls) = chunk_idx - 1
    /\ AnalyzeDone => pipe_calls = chunks

\* a chunk failed and the chunk after it was classified
C12_Witness ==
    /\ AnalyzeDone
    /\ Len(chunks) >= 2
    /\ ~outcomes[1].ok
    /\ outcomes[2].ok
    /\ pipe_calls = chunks

\* the outcomes of the chunks that were processed without an exception
ProcessedOk == SelectSeq(outcomes, LAMBDA o : o.ok)

\* C13: a chunk whose processing raised an exception contributes no score:
\* the verdict is the aggregate of exactly the chunks processed without an
\* exception (num_chunks still counts every chunk).
C13_FailedChunkExcluded ==
    AnalyzeDone =>
        verdict = [VerdictFor(ProcessedOk) EXCEPT !.num_chunks = Len(chunks)]

(***************************************************************************)
(* Loading, exceptions and repeated calls.                                 *)
(***************************************************************************)
\* C14: no exception escapes analyze, whatever fails during the call: no
\* analyze call ends with an exception at its caller.
C14_NoExceptionEscapes == ~(pc = "raised" /\ caller = "analyze")

AllSet(e) == e.tokenizer # 0 /\ e.model # 0 /\ e.pipe # 0

\* C15: the model is loaded at most once per instance: a new instance has
\* _loaded False and tokenizer, model and pipe None; a load_model or
\* analyze call that returns leaves it loaded with the three set; and once
\* it is loaded no call, load_model or the one at the start of analyze,
\* changes _loaded, tokenizer, model or pipe.
C15_LoadedOnce ==
    /\ ~loaded /\ engine = [tokenizer |-> 0, model |-> 0, pipe |-> 0]
    /\ [](loaded => AllSet(engine))
    /\ [][/\ loaded => (loaded' /\ engine' = engine)
          /\ (pc = "idle" /\ pc' # "raised") => (loaded' /\ AllSet(engine'))
         ]_vars

\* an analyze call made after an earlier one returned runs on the loaded
\* analyzer
C15_Witness ==
    /\ history # <<>>
    /\ caller = "analyze"
    /\ pc = "split"
    /\ loaded
    /\ AllSet(engine)

\* C16: with a deterministic classifier, an analyze call on a text returns
\* the verdict the first analyze call on that text returned, whatever calls
\* were made in between, and a step of an analyze call on a loaded analyzer
\* changes none of _loaded, tokenizer, model and pipe.
C16_Pure ==
    /\ []((AnalyzeDone /\ text \in DOMAIN history) => verdict = history[text])
    /\ [][((caller = "analyze" \/ caller' = "analyze") /\ loaded)
            => (loaded' = loaded /\ engine' = engine)]_vars

\* a repeated call on the split text, after calls on every other text
C16_Witness ==
    /\ AnalyzeDone
    /\ DOMAIN history = RepeatedTexts
    /\ Len(chunks) >= 2
    /\ verdict = history[text]
    /\ verdict.sentiment = "negative"

(***************************************************************************)
(* The repository (src/src/database/repository.py), get_session            *)
(* (src/src/database/connection.py) and run_sentiment_analysis             *)
(* (src/src/nlp/run_analysis.py).                                          *)
(*                                                                         *)
(* A speech row is [id, url]; a sentiment row is [speech_id, model_name,   *)
(* sentiment, score].  A table is the sequence of its rows in insertion    *)
(* order.  A repository call goes through the positions                    *)
(*   enter -> body -> commit -> close -> returned                          *)
(*                 \-> rollback -> close -> raised                         *)
(* of its get_session block.                                               *)
(***************************************************************************)
\* the rows a query of session s sees: the committed rows and the rows the
\* session has flushed
SpeechRows(d, s) == d.speeches \o s.speeches

SentimentRows(d, s) == d.sentiments \o s.sentiments

\* the rows of a table as a set
RowSet(rows) == {rows[k] : k \in 1..Len(rows)}

\* QueryRows that misses the rows flushed by the session itself
QueryRows_CommittedOnly(d, s) == d.speeches

\* repository.py:51: the rows select(Speech) ranges over
QueryRows(d, s) == SpeechRows(d, s)

\* repository.py:51: select(Speech).where(Speech.url == url)
Existing(rows, u) == SelectSeq(rows, LAMBDA r : r.url = u)

\* models.py:62: UniqueConstraint("url"): the INSERT of the flush is
\* rejected when a visible row has the URL
ViolatesUnique(d, s, u) == \E r \in RowSet(SpeechRows(d, s)) : r.url = u

\* models.py:45: the autoincrement primary key
NextId(rows) ==
    IF rows = <<>> THEN 1
    ELSE 1 + CHOOSE n \in {rows[k].id : k \in 1..Len(rows)} :
                \A k \in 1..Len(rows) : rows[k].id <= n

\* repository.py:49-68: _store(s) for the URL u: the session after it, what
\* it returns (<<>> is None) and whether the flush raised IntegrityError
StoreSpeechIn(d, s, u) ==
    IF Existing(QueryRows(d, s), u) # <<>>
    THEN [sess |-> s, ret |-> <<>>, integrity_error |-> FALSE]
    ELSE IF ViolatesUnique(d, s, u)
    THEN [sess |-> s, ret |-> <<>>, integrity_error |-> TRUE]
    ELSE LET speech == [id |-> NextId(SpeechRows(d, s)), url |-> u]
         IN  [sess |-> [s EXCEPT !.speeches = Append(@, speech)],
              ret |-> <<speech>>, integrity_error |-> FALSE]

\* get_unanalyzed_speeches without the not_in filter
Unanalyzed_All(d, s, m) == SpeechRows(d, s)

\* repository.py:138-142: the speeches whose id is not the speech_id of a
\* sentiment row of model m
Unanalyzed(d, s, m) ==
    LET analyzed_ids ==
            {r.speech_id : r \in {x \in RowSet(SentimentRows(d, s)) :
                                    x.model_name = m}}
    IN  SelectSeq(SpeechRows(d, s), LAMBDA r : r.id \notin analyzed_ids)

\* the orders a query without ORDER BY can return rows in
Orderings(rows) ==
    {[k \in 1..Len(rows) |-> rows[f[k]]] : f \in Permutations(1..Len(rows))}

\* the SentimentResults analyze hands to run_sentiment_analysis: the
\* verdicts of a one-chunk speech
RunResults ==
    {IF NoScoreAtAll(Accumulate(NoScores, o)) THEN ZeroVerdict(1)
     ELSE ScoreVerdict(Accumulate(NoScores, o), 1) : o \in RepeatedOutcomes}

\* process p runs nothing
Idle(p) == op[p].name = "none" /\ run[p].pc = "idle"

\* the body of the get_session block of p ends
BodyEnds(s, how) == [s EXCEPT !.body = how]

(***************************************************************************)
(* get_session (connection.py:41-60)                                       *)
(***************************************************************************)
\* connection.py:52-54: session = SessionLocal(); yield session
SessionEnter(p) ==
    /\ op[p].pc = "enter"
    /\ sess' = [sess EXCEPT ![p] =
                    [NoSession EXCEPT !.state = "open", !.body = "running"]]
    /\ op' = [op EXCEPT ![p].pc = "body"]
    /\ UNCHANGED <<db, run>>
    /\ UNCHANGED <<analyzerVars, ingestVars>>

\* connection.py:55: session.commit() succeeds: the flushed rows are
\* committed
SessionCommit(p) ==
    /\ op[p].pc = "commit"
    /\ db' = [speeches |-> db.speeches \o sess[p].speeches,
              sentiments |-> db.sentiments \o sess[p].sentiments]
    /\ sess' = [sess EXCEPT ![p].speeches = <<>>, ![p].sentiments = <<>>,
                            ![p].log = Append(@, "commit"),
                            ![p].commit = "done"]
    /\ op' = [op EXCEPT ![p].pc = "close"]
    /\ UNCHANGED run
    /\ UNCHANGED <<analyzerVars, ingestVars>>

\* SessionCommitFails with no except clause: the exception goes straight
\* to the finally clause
SessionCommitFails_NoRollback(p) ==
    /\ op[p].pc = "commit"
    /\ sess' = [sess EXCEPT ![p].log = Append(@, "commit"),
                            ![p].commit = "raised",
                            ![p].raised = TRUE]
    /\ op' = [op EXCEPT ![p].pc = "close"]
    /\ UNCHANGED <<db, run>>
    /\ UNCHANGED <<analyzerVars, ingestVars>>

\* connection.py:55-56: session.commit() raises
SessionCommitFails(p) ==
    /\ op[p].pc = "commit"
    /\ sess' = [sess EXCEPT ![p].log = Append(@, "commit"),
                            ![p].commit = "raised"]
    /\ op' = [op EXCEPT ![p].pc = "rollback"]
    /\ UNCHANGED <<db, run>>
    /\ UNCHANGED <<analyzerVars, ingestVars>>

\* connection.py:56-58: except Exception: session.rollback(); raise
SessionRollback(p) ==
    /\ op[p].pc = "rollback"
    /\ sess' = [sess EXCEPT ![p].speeches = <<>>, ![p].sentiments = <<>>,
                            ![p].log = Append(@, "rollback"),
                            ![p].raised = TRUE]
    /\ op' = [op EXCEPT ![p].pc = "close"]
    /\ UNCHANGED <<db, run>>
    /\ UNCHANGED <<analyzerVars, ingestVars>>

\* connection.py:59-60: finally: session.close(); the call of the
\* repository function then returns or raises
SessionClose(p) ==
    /\ op[p].pc = "close"
    /\ sess' = [sess EXCEPT ![p].state = "closed",
                            ![p].speeches = <<>>, ![p].sentiments = <<>>,
                            ![p].log = Append(@, "close")]
    /\ op' = [op EXCEPT ![p].pc =
                    IF sess[p].raised THEN "raised" ELSE "returned"]
    /\ UNCHANGED <<db, run>>
    /\ UNCHANGED <<analyzerVars, ingestVars>>

(***************************************************************************)
(* store_speech (repository.py:24-74)                                      *)
(***************************************************************************)
\* a call store_speech(url = u) without a session
CallStoreSpeech(p) ==
    /\ Idle(p)
    /\ \E u \in Urls :
        op' = [op EXCEPT ![p] =
                [NoOp EXCEPT !.name = "store_speech", !.pc = "enter",
                             !.url = u, !.before = db]]
    /\ UNCHANGED <<db, sess, run>>
    /\ UNCHANGED <<analyzerVars, ingestVars>>

\* repository.py:73-74: return _store(s) inside the get_session block
StoreSpeechBody(p) ==
    /\ op[p].pc = "body"
    /\ op[p].name = "store_speech"
    /\ LET r == StoreSpeechIn(db, sess[p], op[p].url)
       IN  IF r.integrity_error
           THEN /\ sess' = [sess EXCEPT ![p] =
                                BodyEnds(r.sess, "integrity_error")]
                /\ op' = [op EXCEPT ![p].pc = "rollback"]
           ELSE /\ sess' = [sess EXCEPT ![p] = BodyEnds(r.sess, "finished")]
                /\ op' = [op EXCEPT ![p].ret = r.ret, ![p].pc = "commit"]
    /\ UNCHANGED <<db, run>>
    /\ UNCHANGED <<analyzerVars, ingestVars>>

\* repository.py:51, 66: the database fails during execute or flush
StoreSpeechBodyFails(p) ==
    /\ op[p].pc = "body"
    /\ op[p].name = "store_speech"
    /\ sess' = [sess EXCEPT ![p] = BodyEnds(@, "raised")]
    /\ op' = [op EXCEPT ![p].pc = "rollback"]
    /\ UNCHANGED <<db, run>>
    /\ UNCHANGED <<analyzerVars, ingestVars>>

(***************************************************************************)
(* store_speeches_bulk (repository.py:77-96)                               *)
(***************************************************************************)
\* a call store_speeches_bulk(l); repository.py:87: inserted = 0
CallStoreSpeechesBulk(p) ==
    /\ Idle(p)
    /\ \E l \in BulkLists :
        op' = [op EXCEPT ![p] =
                [NoOp EXCEPT !.name = "store_speeches_bulk", !.pc = "enter",
                             !.speeches = l, !.k = 1, !.inserted = 0,
                             !.before = db]]
    /\ UNCHANGED <<db, sess, run>>
    /\ UNCHANGED <<analyzerVars, ingestVars>>

\* repository.py:90-93: one turn of the loop: store_speech in the session
\* of the bulk call
BulkStore(p) ==
    /\ op[p].pc = "body"
    /\ op[p].name = "store_speeches_bulk"
    /\ op[p].k <= Len(op[p].speeches)
    /\ LET r == StoreSpeechIn(db, sess[p], op[p].speeches[op[p].k])
       IN  IF r.integrity_error
           THEN /\ sess' = [sess EXCEPT ![p] =
                                BodyEnds(r.sess, "integrity_error")]
                /\ op' = [op EXCEPT ![p].pc = "rollback"]
           ELSE /\ sess' = [sess EXCEPT ![p] = r.sess]
                /\ op' = [op EXCEPT ![p].k = @ + 1,
                                    ![p].inserted =
                                        IF r.ret # <<>> THEN @ + 1 ELSE @]
    /\ UNCHANGED <<db, run>>
    /\ UNCHANGED <<analyzerVars, ingestVars>>

\* repository.py:91: the database fails during a store_speech of the loop
BulkStoreFails(p) ==
    /\ op[p].pc = "body"
    /\ op[p].name = "store_speeches_bulk"
    /\ op[p].k <= Len(op[p].speeches)
    /\ sess' = [sess EXCEPT ![p] = BodyEnds(@, "raised")]
    /\ op' = [op EXCEPT ![p].pc = "rollback"]
    /\ UNCHANGED <<db, run>>
    /\ UNCHANGED <<analyzerVars, ingestVars>>

\* repository.py:90: the loop is over, the block is left
BulkEnd(p) ==
    /\ op[p].pc = "body"
    /\ op[p].name = "store_speeches_bulk"
    /\ op[p].k > Len(op[p].speeches)
    /\ sess' = [sess EXCEPT ![p] = BodyEnds(@, "finished")]
    /\ op' = [op EXCEPT ![p].pc = "commit"]
    /\ UNCHANGED <<db, run>>
    /\ UNCHANGED <<analyzerVars, ingestVars>>

\* the result (or the exception) of a repository function called directly
\* reaches its caller
ReturnOp(p) ==
    /\ op[p].pc \in {"returned", "raised"}
    /\ run[p].pc = "idle"
    /\ op' = [op EXCEPT ![p] = NoOp]
    /\ UNCHANGED <<db, sess, run>>
    /\ UNCHANGED <<analyzerVars, ingestVars>>

(***************************************************************************)
(* run_sentiment_analysis (run_analysis.py:30-83) with                     *)
(* get_unanalyzed_speeches (repository.py:127-144) and store_sentiment     *)
(* (repository.py:150-186)                                                 *)
(***************************************************************************)
\* run_analysis.py:42: speeches = get_unanalyzed_speeches(MODEL_NAME)
CallRun(p) ==
    /\ Idle(p)
    /\ run' = [run EXCEPT ![p] = [NoRun EXCEPT !.pc = "fetch", !.before = db]]
    /\ op' = [op EXCEPT ![p] =
                [NoOp EXCEPT !.name = "get_unanalyzed_speeches",
                             !.pc = "enter", !.before = db]]
    /\ UNCHANGED <<db, sess>>
    /\ UNCHANGED <<analyzerVars, ingestVars>>

\* repository.py:137-144
GetUnanalyzedBody(p) ==
    /\ op[p].pc = "body"
    /\ op[p].name = "get_unanalyzed_speeches"
    /\ \E result \in Orderings(Unanalyzed(db, sess[p], MODEL_NAME)) :
        op' = [op EXCEPT ![p].ret = result, ![p].pc = "commit"]
    /\ sess' = [sess EXCEPT ![p] = BodyEnds(@, "finished")]
    /\ UNCHANGED <<db, run>>
    /\ UNCHANGED <<analyzerVars, ingestVars>>

\* repository.py:143: the database fails during execute
GetUnanalyzedFails(p) ==
    /\ op[p].pc = "body"
    /\ op[p].name = "get_unanalyzed_speeches"
    /\ sess' = [sess EXCEPT ![p] = BodyEnds(@, "raised")]
    /\ op' = [op EXCEPT ![p].pc = "rollback"]
    /\ UNCHANGED <<db, run>>
    /\ UNCHANGED <<analyzerVars, ingestVars>>

\* run_analysis.py:42-47: the list is back; an empty list ends the run
RunFetched(p) ==
    /\ run[p].pc = "fetch"
    /\ op[p].pc = "returned"
    /\ run' = [run EXCEPT ![p].speeches = op[p].ret,
                          ![p].pc = IF op[p].ret = <<>> THEN "done"
                                    ELSE "load",
                          ![p].ret = 0]
    /\ op' = [op EXCEPT ![p] = NoOp]
    /\ UNCHANGED <<db, sess>>
    /\ UNCHANGED <<analyzerVars, ingestVars>>

\* run_analysis.py:42: get_unanalyzed_speeches raised; nothing catches it
RunFetchRaised(p) ==
    /\ run[p].pc = "fetch"
    /\ op[p].pc = "raised"
    /\ run' = [run EXCEPT ![p].pc = "raised"]
    /\ op' = [op EXCEPT ![p] = NoOp]
    /\ UNCHANGED <<db, sess>>
    /\ UNCHANGED <<analyzerVars, ingestVars>>

\* run_analysis.py:50-54: the analyzer is created and loaded, the loop
\* starts
RunLoad(p) ==
    /\ run[p].pc = "load"
    /\ run' = [run EXCEPT ![p].pc = "loop", ![p].i = 1, ![p].analyzed = 0]
    /\ UNCHANGED <<db, sess, op>>
    /\ UNCHANGED <<analyzerVars, ingestVars>>

\* run_analysis.py:51: analyzer.load_model() raises; nothing catches it
RunLoadFails(p) ==
    /\ run[p].pc = "load"
    /\ run' = [run EXCEPT ![p].pc = "raised"]
    /\ UNCHANGED <<db, sess, op>>
    /\ UNCHANGED <<analyzerVars, ingestVars>>

\* run_analysis.py:57-66: analyze returns a result, store_sentiment is
\* called with it
RunAnalyze(p) ==
    /\ run[p].pc = "loop"
    /\ run[p].i <= Len(run[p].speeches)
    /\ \E result \in RunResults :
        LET speech == run[p].speeches[run[p].i]
        IN  /\ run' = [run EXCEPT ![p].result = result,
                                  ![p].calls = Append(@, speech.id),
                                  ![p].pc = "store"]
            /\ op' = [op EXCEPT ![p] =
                        [NoOp EXCEPT !.name = "store_sentiment",
                                     !.pc = "enter",
                                     !.row = [speech_id |-> speech.id,
                                              model_name |-> MODEL_NAME,
                                              sentiment |-> result.sentiment,
                                              score |-> result.score],
                                     !.before = db]]
    /\ UNCHANGED <<db, sess>>
    /\ UNCHANGED <<analyzerVars, ingestVars>>

\* RunAnalyzeFails with the loop left at the exception
RunAnalyzeFails_Aborts(p) ==
    /\ run[p].pc = "loop"
    /\ run[p].i <= Len(run[p].speeches)
    /\ run' = [run EXCEPT ![p].calls =
                                Append(@, run[p].speeches[run[p].i].id),
                          ![p].i = Len(run[p].speeches) + 1]
    /\ UNCHANGED <<db, sess, op>>
    /\ UNCHANGED <<analyzerVars, ingestVars>>

\* run_analysis.py:58, 76-78: analyze raises; the exception is logged and
\* the loop goes on
RunAnalyzeFails(p) ==
    /\ run[p].pc = "loop"
    /\ run[p].i <= Len(run[p].speeches)
    /\ run' = [run EXCEPT ![p].calls =
                                Append(@, run[p].speeches[run[p].i].id),
                          ![p].i = @ + 1]
    /\ UNCHANGED <<db, sess, op>>
    /\ UNCHANGED <<analyzerVars, ingestVars>>

\* StoreSentimentBody that does not add the row of an all-zero verdict
StoreSentimentBody_SkipsZero(p) ==
    /\ op[p].pc = "body"
    /\ op[p].name = "store_sentiment"
    /\ sess' = [sess EXCEPT ![p] =
                    BodyEnds([@ EXCEPT !.sentiments =
                                  IF op[p].row.score = 0 THEN @
                                  ELSE Append(@, op[p].row)],
                             "finished")]
    /\ op' = [op EXCEPT ![p].pc = "commit"]
    /\ UNCHANGED <<db, run>>
    /\ UNCHANGED <<analyzerVars, ingestVars>>

\* repository.py:170-186: the row is added and flushed
StoreSentimentBody(p) ==
    /\ op[p].pc = "body"
    /\ op[p].name = "store_sentiment"
    /\ sess' = [sess EXCEPT ![p] =
                    BodyEnds([@ EXCEPT !.sentiments = Append(@, op[p].row)],
                             "finished")]
    /\ op' = [op EXCEPT ![p].pc = "commit"]
    /\ UNCHANGED <<db, run>>
    /\ UNCHANGED <<analyzerVars, ingestVars>>

\* repository.py:178: the database fails during flush
StoreSentimentFails(p) ==
    /\ op[p].pc = "body"
    /\ op[p].name = "store_sentiment"
    /\ sess' = [sess EXCEPT ![p] = BodyEnds(@, "raised")]
    /\ op' = [op EXCEPT ![p].pc = "rollback"]
    /\ UNCHANGED <<db, run>>
    /\ UNCHANGED <<analyzerVars, ingestVars>>

\* run_analysis.py:60-74: store_sentiment returned: analyzed += 1
RunStored(p) ==
    /\ run[p].pc = "store"
    /\ op[p].pc = "returned"
    /\ run' = [run EXCEPT ![p].analyzed = @ + 1, ![p].i = @ + 1,
                          ![p].pc = "loop"]
    /\ op' = [op EXCEPT ![p] = NoOp]
    /\ UNCHANGED <<db, sess>>
    /\ UNCHANGED <<analyzerVars, ingestVars>>

\* run_analysis.py:60, 76-78: store_sentiment raised; the exception is
\* logged and the loop goes on
RunStoreRaised(p) ==
    /\ run[p].pc = "store"
    /\ op[p].pc = "raised"
    /\ run' = [run EXCEPT ![p].i = @ + 1, ![p].pc = "loop"]
    /\ op' = [op EXCEPT ![p] = NoOp]
    /\ UNCHANGED <<db, sess>>
    /\ UNCHANGED <<analyzerVars, ingestVars>>

\* run_analysis.py:80-83: return analyzed
RunEnd(p) ==
    /\ run[p].pc = "loop"
    /\ run[p].i > Len(run[p].speeches)
    /\ run' = [run EXCEPT ![p].pc = "done", ![p].ret = run[p].analyzed]
    /\ UNCHANGED <<db, sess, op>>
    /\ UNCHANGED <<analyzerVars, ingestVars>>

\* the count (or the exception) reaches the caller of
\* run_sentiment_analysis
ReturnRun(p) ==
    /\ run[p].pc \in {"done", "raised"}
    /\ run' = [run EXCEPT ![p] = NoRun]
    /\ UNCHANGED <<db, sess, op>>
    /\ UNCHANGED <<analyzerVars, ingestVars>>

(***************************************************************************)
(* The database used by one process: its calls are sequential.             *)
(***************************************************************************)
Clients == {1}

InitDb ==
    /\ Constructed
    /\ classifier = AnyClassifier
    /\ Installed
    /\ Quiet

NextDb ==
    \/ \E p \in Clients : SessionEnter(p)
    \/ \E p \in Clients : SessionCommit(p)
    \/ \E p \in Clients : SessionCommitFails(p)
    \/ \E p \in Clients : SessionRollback(p)
    \/ \E p \in Clients : SessionClose(p)
    \/ \E p \in Clients : CallStoreSpeech(p)
    \/ \E p \in Clients : StoreSpeechBody(p)
    \/ \E p \in Clients : StoreSpeechBodyFails(p)
    \/ \E p \in Clients : CallStoreSpeechesBulk(p)
    \/ \E p \in Clients : BulkStore(p)
    \/ \E p \in Clients : BulkStoreFails(p)
    \/ \E p \in Clients : BulkEnd(p)
    \/ \E p \in Clients : ReturnOp(p)
    \/ \E p \in Clients : CallRun(p)
    \/ \E p \in Clients : GetUnanalyzedBody(p)
    \/ \E p \in Clients : GetUnanalyzedFails(p)
    \/ \E p \in Clients : RunFetched(p)
    \/ \E p \in Clients : RunFetchRaised(p)
    \/ \E p \in Clients : RunLoad(p)
    \/ \E p \in Clients : RunLoadFails(p)
    \/ \E p \in Clients : RunAnalyze(p)
    \/ \E p \in Clients : RunAnalyzeFails(p)
    \/ \E p \in Clients : StoreSentimentBody(p)
    \/ \E p \in Clients : StoreSentimentFails(p)
    \/ \E p \in Clients : RunStored(p)
    \/ \E p \in Clients : RunStoreRaised(p)
    \/ \E p \in Clients : RunEnd(p)
    \/ \E p \in Clients : ReturnRun(p)

SpecDb == InitDb /\ [][NextDb]_vars

DbTypeOK ==
    \A p \in Procs :
        /\ sess[p].state \in {"none", "open", "closed"}
        /\ op[p].pc \in {"none", "enter", "body", "commit", "rollback",
                         "close", "returned", "raised"}
        /\ run[p].pc \in {"idle", "fetch", "load", "loop", "store", "done",
                          "raised"}
        /\ Len(db.speeches) <= MaxUrls

(***************************************************************************)
(* Properties of the repository, get_session and run_sentiment_analysis.   *)
(***************************************************************************)
IdsOf(rows) == [k \in 1..Len(rows) |-> rows[k].id]

UrlsOf(rows) == {rows[k].url : k \in 1..Len(rows)}

\* the rows of table `now` that were not in it at the time of `before`
NewRows(before, now) == SubSeq(now, Len(before) + 1, Len(now))

\* C17: run_sentiment_analysis hands the unanalyzed speeches to analyze one
\* at a time, in list order; an exception of analyze or store_sentiment for
\* one speech does not stop the loop (at the end every speech of the list
\* was handed to analyze); and the count returned is the number of speeches
\* whose sentiment row was stored by this run.
C17_BatchContinues ==
    \A p \in Procs :
        LET r == run[p]
            ids == IdsOf(r.speeches)
            stored == NewRows(r.before.sentiments, db.sentiments)
        IN  /\ r.pc \in {"loop", "store", "done"} =>
                /\ Len(r.calls) <= Len(ids)
                /\ r.calls = SubSeq(ids, 1, Len(r.calls))
            /\ r.pc = "loop" => Len(r.calls) = r.i - 1
            /\ r.pc = "done" =>
                /\ r.calls = ids
                /\ r.ret = Len(stored)
                /\ \A k \in 1..Len(stored) :
                    \E j \in 1..Len(ids) : stored[k].speech_id = ids[j]

\* the first of two speeches failed, the second was stored and counted
C17_Witness ==
    /\ run[1].pc = "done"
    /\ Len(run[1].speeches) = 2
    /\ run[1].ret = 1
    /\ Len(db.sentiments) = 1
    /\ db.sentiments[1].speech_id = run[1].speeches[2].id

FinbertRows(d, id) ==
    {k \in 1..Len(d.sentiments) :
        /\ d.sentiments[k].speech_id = id
        /\ d.sentiments[k].model_name = "finbert"}

AllAnalyzed(d) ==
    \A k \in 1..Len(d.speeches) : FinbertRows(d, d.speeches[k].id) # {}

\* C18: with sequential calls, run_sentiment_analysis analyzes only
\* speeches that had no 'finbert' sentiment row when it started; every
\* speech has at most one 'finbert' sentiment row; and a run that starts
\* when every speech has its row analyzes nothing, stores nothing and
\* returns 0.
C18_OnlyUnanalyzed ==
    /\ \A k \in 1..Len(db.speeches) :
            Cardinality(FinbertRows(db, db.speeches[k].id)) <= 1
    /\ \A p \in Procs :
        LET r == run[p]
        IN  /\ \A k \in 1..Len(r.calls) : FinbertRows(r.before, r.calls[k]) = {}
            /\ (r.pc = "done" /\ AllAnalyzed(r.before)) =>
                    /\ r.ret = 0
                    /\ r.calls = <<>>
                    /\ db = r.before

\* a run that found two speeches, both analyzed before, returned 0
C18_Witness ==
    /\ run[1].pc = "done"
    /\ Len(run[1].before.speeches) >= 2
    /\ AllAnalyzed(run[1].before)
    /\ run[1].ret = 0

NoDuplicateUrl(rows) ==
    \A i, j \in 1..Len(rows) : rows[i].url = rows[j].url => i = j

\* C19: with sequential calls of store_speech and store_speeches_bulk, no
\* two speeches, committed or flushed, have the same URL; the unique
\* constraint is never hit; store_speech on a stored URL returns None and
\* changes nothing and on a new URL inserts one row; and
\* store_speeches_bulk returns the number of rows it inserted, one for
\* each URL of its list that was not stored, however often it is listed.
C19_DedupByUrl ==
    \A p \in Procs :
        LET o == op[p]
        IN  /\ NoDuplicateUrl(SpeechRows(db, sess[p]))
            /\ sess[p].body # "integrity_error"
            /\ (o.name = "store_speech" /\ o.pc = "returned") =>
                    IF o.url \in UrlsOf(o.before.speeches)
                    THEN o.ret = <<>> /\ db = o.before
                    ELSE /\ Len(o.ret) = 1
                         /\ o.ret[1].url = o.url
                         /\ db.speeches = Append(o.before.speeches, o.ret[1])
            /\ (o.name = "store_speeches_bulk" /\ o.pc = "returned") =>
                    /\ o.before.speeches
                            = SubSeq(db.speeches, 1, Len(o.before.speeches))
                    /\ o.inserted
                            = Len(NewRows(o.before.speeches, db.speeches))
                    /\ UrlsOf(db.speeches)
                            = UrlsOf(o.before.speeches)
                                \cup {o.speeches[k] : k \in 1..Len(o.speeches)}

\* a bulk call that lists the same new URL twice inserted it once
C19_Witness ==
    /\ op[1].name = "store_speeches_bulk"
    /\ op[1].pc = "returned"
    /\ Len(op[1].speeches) = 2
    /\ op[1].speeches[1] = op[1].speeches[2]
    /\ op[1].speeches[1] \notin UrlsOf(op[1].before.speeches)
    /\ op[1].inserted = 1

Called(log, what) == \E k \in 1..Len(log) : log[k] = what

\* C20: in a get_session block commit is called exactly when the body
\* finished without an exception; when the body or the commit raised, the
\* session is rolled back and the exception reaches the caller; the session
\* is closed last, once; and commit is never called after rollback.
C20_SessionProtocol ==
    \A p \in Procs :
        LET s == sess[p]
            log == s.log
        IN  /\ Called(log, "commit") => s.body = "finished"
            /\ s.state # "closed" => ~Called(log, "close")
            /\ s.state = "closed" =>
                /\ log[Len(log)] = "close"
                /\ Cardinality({k \in 1..Len(log) : log[k] = "close"}) = 1
                /\ s.body = "finished" => log[1] = "commit"
                /\ (s.body # "finished" \/ s.commit = "raised")
                        => (Called(log, "rollback") /\ s.raised)
                /\ (s.body = "finished" /\ s.commit = "done")
                        => (~Called(log, "rollback") /\ ~s.raised)
            /\ \A i, j \in 1..Len(log) :
                    (log[i] = "rollback" /\ log[j] = "commit") => j < i
            /\ op[p].pc = "returned" => ~s.raised
            /\ op[p].pc = "raised" => s.raised

\* a session whose commit raised: rolled back, closed, exception passed on
C20_Witness ==
    /\ sess[1].state = "closed"
    /\ sess[1].log = <<"commit", "rollback", "close">>
    /\ op[1].pc = "raised"


(***************************************************************************)
(* market_data.py: _calc_pct_change and _fetch_single_symbol, each called  *)
(* on its own as the tests of test_market_data.py call them.               *)
(***************************************************************************)
\* market_data.py:180-184, called with any two optional prices
CallCalcPctChange ==
    /\ ~calc.called /\ ~snapshot.called
    /\ \E price_before, price_after \in OptPrices :
           calc' = [called |-> TRUE, price_before |-> price_before,
                    price_after |-> price_after,
                    ret |-> CalcPctChange(price_before, price_after)]
    /\ UNCHANGED <<snapshot, market_data, published_at, backfill, scan>>
    /\ UNCHANGED <<analyzerVars, dbVars>>

\* market_data.py:85-140, with any price history from ticker.history
CallFetchSingleSymbol ==
    /\ ~calc.called /\ ~snapshot.called
    /\ \E hist \in Histories :
           snapshot' = [called |-> TRUE, hist |-> hist]
                         @@ FetchSingleSymbol(1, 1, hist)
    /\ UNCHANGED <<calc, market_data, published_at, backfill, scan>>
    /\ UNCHANGED <<analyzerVars, dbVars>>

\* the caller has the value of _calc_pct_change
ReturnCalcPctChange ==
    /\ calc.called
    /\ calc' = NoCalc
    /\ UNCHANGED <<snapshot, market_data, published_at, backfill, scan>>
    /\ UNCHANGED <<analyzerVars, dbVars>>

\* the caller has the value of _fetch_single_symbol
ReturnFetchSingleSymbol ==
    /\ snapshot.called
    /\ snapshot' = NoSnapshot
    /\ UNCHANGED <<calc, market_data, published_at, backfill, scan>>
    /\ UNCHANGED <<analyzerVars, dbVars>>

\* nothing is running, the tables are empty
InitIngest ==
    /\ Constructed
    /\ classifier = AnyClassifier
    /\ Installed
    /\ Quiet

NextMarket ==
    \/ CallCalcPctChange
    \/ ReturnCalcPctChange
    \/ CallFetchSingleSymbol
    \/ ReturnFetchSingleSymbol

SpecMarket == InitIngest /\ [][NextMarket]_vars

MarketTypeOK ==
    /\ calc.called \in BOOLEAN
    /\ calc.price_before \in OptPrices
    /\ calc.price_after \in OptPrices
    /\ calc.ret = None \/ (Len(calc.ret) = 1 /\ calc.ret[1].den > 0)
    /\ snapshot.hist \in Histories
    /\ snapshot.price_at_speech \in OptPrices
    /\ snapshot.price_1d \in OptPrices
    /\ snapshot.price_1w \in OptPrices
    /\ Len(snapshot.ret) <= 1

\* the sign of an integer
Sign(x) == IF x > 0 THEN 1 ELSE IF x < 0 THEN -1 ELSE 0

\* q = n / d for the fraction q
IsQuotient(q, n, d) == q.den > 0 /\ q.num * d = n * q.den

\* the call of _calc_pct_change returned what C21 says it returns, the
\* sign of the value included when anyBase is true or price_before > 0
CalcAsStated(c, anyBase) ==
    LET b == c.price_before
        a == c.price_after
    IN  /\ c.ret = None <=> (b = None \/ a = None \/ b = Some(0))
        /\ c.ret # None =>
              /\ IsQuotient(c.ret[1], (a[1] - b[1]) * 100, b[1])
              /\ (anyBase \/ b[1] > 0) =>
                    Sign(c.ret[1].num) = Sign(a[1] - b[1])

\* C21 as stated: _calc_pct_change returns None exactly when price_before
\* is None, price_after is None or price_before is 0; otherwise it returns
\* (price_after - price_before) / price_before * 100, which is positive for
\* a rise, negative for a fall and 0 for equal prices.
C21_SignFollowsMove == calc.called => CalcAsStated(calc, TRUE)

\* C21, amended: _calc_pct_change returns None exactly when price_before is
\* None, price_after is None or price_before is 0; otherwise it returns
\* (price_after - price_before) / price_before * 100, which for a positive
\* price_before is positive for a rise, negative for a fall and 0 for equal
\* prices.
C21_PctChange == calc.called => CalcAsStated(calc, FALSE)

\* a call with a positive price_before and a higher price_after returned a
\* positive change
C21_Witness ==
    /\ calc.called
    /\ calc.price_before # None /\ calc.price_after # None
    /\ calc.price_before[1] > 0
    /\ calc.price_after[1] > calc.price_before[1]
    /\ calc.ret # None /\ calc.ret[1].num > 0


\* C29: in a MarketSnapshot returned by _fetch_single_symbol, change_1d_pct
\* (change_1w_pct) is None exactly when _calc_pct_change returned None for
\* that horizon; an unchanged price yields a change of 0, not None, and a
\* later price that is available is never reported as None.
C29_NoneOnlyWhenUnavailable ==
    snapshot.called /\ snapshot.ret # None =>
        LET s == snapshot.ret[1]
        IN  /\ s.change_1d_pct = None <=> snapshot.change_1d = None
            /\ s.change_1w_pct = None <=> snapshot.change_1w = None
            /\ snapshot.price_1d = Some(snapshot.price_at_speech[1]) /\ snapshot.price_1d # Some(0)
                  => s.change_1d_pct = Some(0)
            /\ snapshot.price_1d # None => s.price_1d_after # None
            /\ snapshot.price_1w # None => s.price_1w_after # None

(***************************************************************************)
(* run_backfill.py: run_market_backfill, with the speeches that get stored *)
(* between its calls.                                                      *)
(***************************************************************************)
RECURSIVE InsertLatestFirst(_, _)
\* repository.py:116: published_at with one more speech, latest first
InsertLatestFirst(dates, d) ==
    IF dates = <<>> \/ d >= Head(dates) THEN <<d>> \o dates
    ELSE <<Head(dates)>> \o InsertLatestFirst(Tail(dates), d)

\* the dates the table market_data has rows for
DatesWithData(rows) == {rows[k].speech_date : k \in 1..Len(rows)}

\* a price history that gives a snapshot
QuotedHist == <<[day |-> 0, Close |-> 1], [day |-> 1, Close |-> 2]>>

RECURSIVE SnapshotsOf(_, _, _)
\* market_data.py:72-82: the snapshots of the first n symbols, those of
\* answered being the symbols whose fetch gave a snapshot
SnapshotsOf(answered, speech_date, n) ==
    IF n = 0 THEN <<>>
    ELSE SnapshotsOf(answered, speech_date, n - 1)
           \o (IF n \in answered
               THEN FetchSingleSymbol(n, speech_date, QuotedHist).ret
               ELSE <<>>)

\* market_data.py:48-82: what fetch_market_data_for_date can return
FetchMarketDataForDate(speech_date) ==
    {SnapshotsOf(answered, speech_date, MaxSymbols) : answered \in SUBSET Symbols}

\* repository.py:219-231: the row of a snapshot
MarketRow(rows, s) == [id |-> Len(rows) + 1] @@ s

\* a speech is stored (store_speech): the table speeches has one more row
SpeechPublished ==
    /\ Len(published_at) < MaxSpeeches
    /\ \E d \in Dates : published_at' = InsertLatestFirst(published_at, d)
    /\ UNCHANGED <<calc, snapshot, market_data, backfill, scan>>
    /\ UNCHANGED <<analyzerVars, dbVars>>

\* run_backfill.py:89-91
CallBackfill ==
    /\ backfill.pc = "idle"
    /\ backfill.runs < MaxRuns
    /\ backfill' = [backfill EXCEPT !.pc = "loop", !.speeches = published_at,
                                    !.i = 1, !.processed_dates = {},
                                    !.snapshots = <<>>, !.j = 0,
                                    !.stored = 0, !.ret = 0,
                                    !.had = DatesWithData(market_data),
                                    !.fetched = <<>>]
    /\ UNCHANGED <<calc, snapshot, market_data, published_at, scan>>
    /\ UNCHANGED <<analyzerVars, dbVars>>

\* run_backfill.py:89: get_speeches raises
CallBackfillFails ==
    /\ backfill.pc = "idle"
    /\ backfill.runs < MaxRuns
    /\ backfill' = [backfill EXCEPT !.pc = "raised", !.speeches = <<>>,
                                    !.i = 0, !.processed_dates = {},
                                    !.snapshots = <<>>, !.j = 0,
                                    !.stored = 0, !.ret = 0,
                                    !.had = DatesWithData(market_data),
                                    !.fetched = <<>>]
    /\ UNCHANGED <<calc, snapshot, market_data, published_at, scan>>
    /\ UNCHANGED <<analyzerVars, dbVars>>

\* run_backfill.py:93-96: the date of this speech was handled in this call
BackfillSkip ==
    /\ backfill.pc = "loop"
    /\ backfill.i <= Len(backfill.speeches)
    /\ backfill.speeches[backfill.i] \in backfill.processed_dates
    /\ backfill' = [backfill EXCEPT !.i = @ + 1]
    /\ UNCHANGED <<calc, snapshot, market_data, published_at, scan>>
    /\ UNCHANGED <<analyzerVars, dbVars>>

\* run_backfill.py:93-100
BackfillFetch ==
    /\ backfill.pc = "loop"
    /\ backfill.i <= Len(backfill.speeches)
    /\ LET date_key == backfill.speeches[backfill.i]
       IN  /\ date_key \notin backfill.processed_dates
           /\ \E snapshots \in FetchMarketDataForDate(date_key) :
                backfill' = [backfill EXCEPT
                               !.pc = "store",
                               !.processed_dates = @ \cup {date_key},
                               !.fetched = Append(@, date_key),
                               !.snapshots = snapshots, !.j = 1]
    /\ UNCHANGED <<calc, snapshot, market_data, published_at, scan>>
    /\ UNCHANGED <<analyzerVars, dbVars>>

\* run_backfill.py:102-112, repository.py:219-237
BackfillStore ==
    /\ backfill.pc = "store"
    /\ backfill.j <= Len(backfill.snapshots)
    /\ market_data' = Append(market_data,
                             MarketRow(market_data, backfill.snapshots[backfill.j]))
    /\ backfill' = [backfill EXCEPT !.j = @ + 1, !.stored = @ + 1]
    /\ UNCHANGED <<calc, snapshot, published_at, scan>>
    /\ UNCHANGED <<analyzerVars, dbVars>>

\* run_backfill.py:103, connection.py:56-58: store_market_snapshot raises,
\* its session is rolled back
BackfillStoreFails ==
    /\ backfill.pc = "store"
    /\ backfill.j <= Len(backfill.snapshots)
    /\ backfill' = [backfill EXCEPT !.pc = "raised"]
    /\ UNCHANGED <<calc, snapshot, market_data, published_at, scan>>
    /\ UNCHANGED <<analyzerVars, dbVars>>

\* run_backfill.py:102, 93: the snapshots of this date are stored
BackfillNext ==
    /\ backfill.pc = "store"
    /\ backfill.j > Len(backfill.snapshots)
    /\ backfill' = [backfill EXCEPT !.pc = "loop", !.i = @ + 1]
    /\ UNCHANGED <<calc, snapshot, market_data, published_at, scan>>
    /\ UNCHANGED <<analyzerVars, dbVars>>

\* run_backfill.py:114-115
BackfillEnd ==
    /\ backfill.pc = "loop"
    /\ backfill.i > Len(backfill.speeches)
    /\ backfill' = [backfill EXCEPT !.pc = "done", !.ret = backfill.stored]
    /\ UNCHANGED <<calc, snapshot, market_data, published_at, scan>>
    /\ UNCHANGED <<analyzerVars, dbVars>>

\* the call returns or its exception reaches the caller
ReturnBackfill ==
    /\ backfill.pc \in {"done", "raised"}
    /\ backfill' = [backfill EXCEPT !.pc = "idle", !.runs = @ + 1]
    /\ UNCHANGED <<calc, snapshot, market_data, published_at, scan>>
    /\ UNCHANGED <<analyzerVars, dbVars>>

NextBackfill ==
    \/ SpeechPublished
    \/ CallBackfill
    \/ CallBackfillFails
    \/ BackfillSkip
    \/ BackfillFetch
    \/ BackfillStore
    \/ BackfillStoreFails
    \/ BackfillNext
    \/ BackfillEnd
    \/ ReturnBackfill

SpecBackfill == InitIngest /\ [][NextBackfill]_vars

\* C22: run_market_backfill fetches market data only for speech dates that
\* have none yet (a call made when every speech date has market data
\* fetches nothing), and no (symbol, speech date) pair is stored twice.
C22_OnlyMissingDates ==
    /\ \A k \in 1..Len(backfill.fetched) : backfill.fetched[k] \notin backfill.had
    /\ \A k, l \in 1..Len(market_data) :
         /\ market_data[k].symbol = market_data[l].symbol
         /\ market_data[k].speech_date = market_data[l].speech_date
         => k = l

\* C23: in the loop over the sentences, a sentence is appended to the
\* pending group exactly when the token count of
\* ". ".join(pending + [sentence]), the joined string encoded as a whole, is
\* at most max_tokens; the separators count, a sum of the counts of the
\* sentences is never what decides.
C23_JoinedCountDecides ==
    [][pc = "loop" /\ idx <= Len(sentences) /\ idx' = idx + 1 =>
         LET sentence == sentences[idx]
             appended == /\ current_chunk' = Append(current_chunk, sentence)
                         /\ chunks' = chunks
         IN  appended <=>
               TokenCount(Join(Append(current_chunk, sentence))) <= max_tokens]_vars

\* two sentences whose token counts add up to at most max_tokens, while
\* their joined string has more tokens: the second one was not appended
C23_Witness ==
    /\ pc = "loop"
    /\ Len(sentences) >= 2 /\ idx >= 3
    /\ TokenCount(sentences[1]) + TokenCount(sentences[2]) <= max_tokens
    /\ TokenCount(Join(<<sentences[1], sentences[2]>>)) > max_tokens
    /\ chunks = <<sentences[1] \o <<".">>>>
    /\ current_chunk = <<sentences[2]>>

\* C24: the num_chunks of every verdict analyze returns is the number of
\* chunks _split_into_chunks returned for the text, in the branch with
\* scores and in the all-zero branch, however many chunks failed.
C24_NumChunks ==
    AnalyzeDone =>
        /\ verdict.num_chunks = Len(chunks)
        /\ verdict.num_chunks = Len(outcomes)

\* a verdict with scores for a text of several chunks, one of which failed
C24_Witness ==
    /\ AnalyzeDone
    /\ Len(chunks) >= 2
    /\ \E k \in 1..Len(outcomes) : ~outcomes[k].ok
    /\ \E k \in 1..Len(outcomes) : outcomes[k].ok
    /\ ~NoScoreAtAll(all_scores)
    /\ verdict.num_chunks = Len(chunks)

(***************************************************************************)
(* ecb_backfill.py: get_records_from_chunks.  A response of the data       *)
(* endpoint is given as the records _chunk_flat_array makes of it; a       *)
(* record is "speech" when parse_record returns a dict for it and "other"  *)
(* when parse_record returns None.  A parsed record is named by its row.   *)
(***************************************************************************)
\* ecb_backfill.py:172-180: the lists a fetch of one chunk can give, from
\* the empty list to a full chunk
ChunkLists == UNION {[1..n -> {"speech", "other"}] : n \in 0..CHUNK_SIZE}

\* ecb_backfill.py:144: the arguments speech_indices and max_records
SpeechIndexSets == SUBSET (0..SCAN_LIMIT)

RECURSIVE ScanRecords(_, _, _, _, _, _)
\* ecb_backfill.py:182-190: the for loop over the records of a chunk from
\* its k-th record on; found and row are records and global_row_idx
ScanRecords(chunk_records, k, speech_indices, max_records, found, row) ==
    IF k > Len(chunk_records) THEN [records |-> found, global_row_idx |-> row]
    ELSE IF row \in speech_indices /\ chunk_records[k] = "speech"
    THEN IF Len(found) + 1 >= max_records
         THEN [records |-> Append(found, row), global_row_idx |-> row]
         ELSE ScanRecords(chunk_records, k + 1, speech_indices, max_records,
                          Append(found, row), row + 1)
    ELSE ScanRecords(chunk_records, k + 1, speech_indices, max_records,
                     found, row + 1)

\* ecb_backfill.py:164-167
CallScan ==
    /\ scan.pc = "idle"
    /\ \E speech_indices \in SpeechIndexSets, max_records \in 0..MaxRecords :
         scan' = [pc |-> "loop", speech_indices |-> speech_indices,
                  max_records |-> max_records, records |-> <<>>,
                  global_row_idx |-> 0, group_idx |-> 0,
                  chunk_in_group |-> 0, ret |-> <<>>]
    /\ UNCHANGED <<calc, snapshot, market_data, published_at, backfill>>
    /\ UNCHANGED <<analyzerVars, dbVars>>

\* ecb_backfill.py:169: the while condition is false
ScanFull ==
    /\ scan.pc = "loop"
    /\ Len(scan.records) >= scan.max_records
    /\ scan' = [scan EXCEPT !.pc = "done"]
    /\ UNCHANGED <<calc, snapshot, market_data, published_at, backfill>>
    /\ UNCHANGED <<analyzerVars, dbVars>>

\* ecb_backfill.py:172-177: the fetch failed or gave something that is not
\* a list
ScanNoList ==
    /\ scan.pc = "loop"
    /\ Len(scan.records) < scan.max_records
    /\ scan' = [scan EXCEPT !.pc = "done"]
    /\ UNCHANGED <<calc, snapshot, market_data, published_at, backfill>>
    /\ UNCHANGED <<analyzerVars, dbVars>>

\* ecb_backfill.py:169-209: one pass of the while loop over a chunk that
\* was fetched
ScanChunk ==
    /\ scan.pc = "loop"
    /\ Len(scan.records) < scan.max_records
    /\ scan.group_idx < MaxGroups
    /\ \E chunk_records \in ChunkLists :
         LET after == ScanRecords(chunk_records, 1, scan.speech_indices,
                                  scan.max_records, scan.records,
                                  scan.global_row_idx)
             full == Len(after.records) >= scan.max_records
             wraps == scan.chunk_in_group + 1 >= GROUP_SIZE \div CHUNK_SIZE
         IN  scan' = [scan EXCEPT
                        !.records = after.records,
                        !.global_row_idx = after.global_row_idx,
                        !.chunk_in_group =
                            IF full THEN @ ELSE IF wraps THEN 0 ELSE @ + 1,
                        !.group_idx = IF ~full /\ wraps THEN @ + 1 ELSE @,
                        !.pc = IF full \/ after.global_row_idx > SCAN_LIMIT
                               THEN "done" ELSE "loop"]
    /\ UNCHANGED <<calc, snapshot, market_data, published_at, backfill>>
    /\ UNCHANGED <<analyzerVars, dbVars>>

\* ecb_backfill.py:211
ReturnScan ==
    /\ scan.pc = "done"
    /\ scan' = [scan EXCEPT !.pc = "idle", !.ret = scan.records]
    /\ UNCHANGED <<calc, snapshot, market_data, published_at, backfill>>
    /\ UNCHANGED <<analyzerVars, dbVars>>

NextScan ==
    \/ CallScan
    \/ ScanFull
    \/ ScanNoList
    \/ ScanChunk
    \/ ReturnScan

SpecScan == InitIngest /\ [][NextScan]_vars

ScanTypeOK ==
    /\ scan.pc \in {"idle", "loop", "done"}
    /\ scan.speech_indices \in SpeechIndexSets
    /\ scan.max_records \in 0..MaxRecords
    /\ scan.global_row_idx \in Nat
    /\ scan.group_idx \in 0..MaxGroups
    /\ scan.chunk_in_group \in 0..(GROUP_SIZE \div CHUNK_SIZE)

\* the records found, and the list returned, never number more than
\* max_records
AtMostMaxRecords ==
    /\ Len(scan.records) <= scan.max_records
    /\ Len(scan.ret) <= scan.max_records

\* C25: get_records_from_chunks terminates whatever the data endpoint
\* answers: every pass of the scan loop that does not leave the loop brings
\* one of its two exits nearer (more records for max_records, or more rows
\* scanned for the row limit), and the result never holds more than
\* max_records records.
C25_ScanEnds ==
    /\ [][scan.pc = "loop" /\ scan'.pc = "loop" /\ scan' # scan =>
            \/ Len(scan'.records) > Len(scan.records)
            \/ scan'.global_row_idx > scan.global_row_idx]_vars
    /\ []AtMostMaxRecords

\* C26: when the text does not fit in one chunk, the loop over the
\* sentences itself leaves at least one chunk (saved or pending), so what
\* _split_into_chunks returns is the loop's chunks and never the fallback
\* [text[:2000]].
C26_LoopEmitsAChunk ==
    [][pc = "loop" /\ pc' = "split_done" =>
         /\ chunks # <<>> \/ current_chunk # <<>>
         /\ chunks' = IF current_chunk # <<>>
                      THEN Append(chunks, Join(current_chunk)) ELSE chunks
         /\ chunks' # <<>>]_vars

\* the loop has ended with no pending group: every chunk returned was
\* saved inside the loop
C26_Witness ==
    /\ ReturnedFromLoop
    /\ current_chunk = <<>>
    /\ chunks # <<>>
    /\ idx > Len(sentences)

\* C30: in every verdict with scores, the score field equals the per-label
\* field (positive_score, negative_score or neutral_score) of the winning
\* sentiment of the same verdict.
C30_ScoreIsWinnersField ==
    AnalyzeDone /\ ~NoScoreAtAll(all_scores) =>
        verdict.score = LabelScore(verdict, verdict.sentiment)

\* the verdict analyze returns when every chunk failed, as a sentiment row
IsZeroRow(r) == r.sentiment = "neutral" /\ r.score = 0

\* C28: for every speech for which analyze returns, the all-zero neutral
\* verdict included, run_sentiment_analysis calls store_sentiment with the
\* verdict, and once that call has returned the speech has its 'finbert'
\* row; no sentiment row is ever removed or changed; and
\* get_unanalyzed_speeches('finbert') never returns a speech that has a
\* 'finbert' row, so such a speech is not selected by a later run.
C28_ZeroVerdictCounts ==
    /\ [](\A p \in Procs :
            /\ run[p].pc = "store" =>
                 LET speech == run[p].speeches[run[p].i]
                     row == [speech_id |-> speech.id, model_name |-> MODEL_NAME,
                             sentiment |-> run[p].result.sentiment,
                             score |-> run[p].result.score]
                 IN  /\ op[p].name = "store_sentiment"
                     /\ op[p].row = row
                     /\ op[p].pc = "returned" =>
                          \E k \in FinbertRows(db, speech.id) : db.sentiments[k] = row
            /\ op[p].name = "get_unanalyzed_speeches"
                 /\ op[p].pc \in {"commit", "close", "returned"} =>
                 \A k \in 1..Len(op[p].ret) : FinbertRows(db, op[p].ret[k].id) = {})
    /\ [][SubSeq(db'.sentiments, 1, Len(db.sentiments)) = db.sentiments]_vars

\* a speech got the all-zero verdict in an earlier run; a later run found
\* nothing to analyze
C28_Witness ==
    /\ run[1].pc = "done"
    /\ run[1].before.speeches # <<>>
    /\ \E k \in 1..Len(run[1].before.sentiments) :
         /\ IsZeroRow(run[1].before.sentiments[k])
         /\ run[1].before.sentiments[k].model_name = MODEL_NAME
    /\ AllAnalyzed(run[1].before)
    /\ run[1].speeches = <<>>
    /\ run[1].calls = <<>>

(***************************************************************************)
(* Two processes run run_sentiment_analysis on one database at the same    *)
(* time; the speeches were stored before.                                  *)
(***************************************************************************)
\* the table speeches after one store_speech
StoredSpeeches == <<[id |-> 1, url |-> 1]>>

InitRuns ==
    /\ Constructed
    /\ classifier = AnyClassifier
    /\ db = [speeches |-> StoredSpeeches, sentiments |-> <<>>]
    /\ sess = [p \in Procs |-> NoSession]
    /\ op = [p \in Procs |-> NoOp]
    /\ run = [p \in Procs |-> NoRun]
    /\ Quiet

NextRuns ==
    \/ \E p \in Procs : SessionEnter(p)
    \/ \E p \in Procs : SessionCommit(p)
    \/ \E p \in Procs : SessionCommitFails(p)
    \/ \E p \in Procs : SessionRollback(p)
    \/ \E p \in Procs : SessionClose(p)
    \/ \E p \in Procs : CallRun(p)
    \/ \E p \in Procs : GetUnanalyzedBody(p)
    \/ \E p \in Procs : GetUnanalyzedFails(p)
    \/ \E p \in Procs : RunFetched(p)
    \/ \E p \in Procs : RunFetchRaised(p)
    \/ \E p \in Procs : RunLoad(p)
    \/ \E p \in Procs : RunLoadFails(p)
    \/ \E p \in Procs : RunAnalyze(p)
    \/ \E p \in Procs : RunAnalyzeFails(p)
    \/ \E p \in Procs : StoreSentimentBody(p)
    \/ \E p \in Procs : StoreSentimentFails(p)
    \/ \E p \in Procs : RunStored(p)
    \/ \E p \in Procs : RunStoreRaised(p)
    \/ \E p \in Procs : RunEnd(p)
    \/ \E p \in Procs : ReturnRun(p)

SpecRuns == InitRuns /\ [][NextRuns]_vars

\* C27: at most one sentiment row per (speech_id, model_name) is ever
\* stored, also when two runs of run_sentiment_analysis interleave.
C27_OneRowPerSpeechAndModel ==
    \A i, j \in 1..Len(db.sentiments) :
        /\ db.sentiments[i].speech_id = db.sentiments[j].speech_id
        /\ db.sentiments[i].model_name = db.sentiments[j].model_name
        => i = j

====
